---------------------------- MODULE Spec2Model ----------------------------
(***************************************************************************)
(* A model of jba/go-ecosystem: the module-index cursor (index.Entries),   *)
(* the `eco update` command (ingest phase updateFromIndex, resolve phase   *)
(* updateModuleFromProxy) and the version resolution it drives.            *)
(*                                                                         *)
(* Conventions.  A Go string that can be empty is modelled with a value    *)
(* for "": timestamps and info times are naturals with 0 for "", an error  *)
(* text is a tuple with <<>> for "", a version is a record with NoVersion  *)
(* for "".  A Go error is a record with kind "nil" for the nil error.      *)
(***************************************************************************)
EXTENDS Naturals, Integers, Sequences, FiniteSets, TLC

\* ------------------------------------------------------------------ bounds

\* Module paths known to the index.
MaxPaths == 2
\* Distinct versions a path is published at in the index.
MaxFeedVersions == 2
\* Timestamps of index entries are 1..MaxTs.
MaxTs == 2
\* Entries the index holds at most.
MaxFeed == 3
\* Entries the index server returns per page (its own cap: Entries passes limit 0).
PageSize == 2
\* Invocations of `eco update`.
MaxRuns == 2

Paths == 1..MaxPaths
FeedVersions == 1..MaxFeedVersions
Timestamps == 1..MaxTs

Min(a, b) == IF a <= b THEN a ELSE b

Range(s) == {s[i] : i \in DOMAIN s}

\* ------------------------------------------------------------------ errors

Nil == [kind |-> "nil", status |-> -1, ep |-> "-"]

\* A non-2xx response: httputil.HTTPError{Status}.
HTTPError(st, ep) == [kind |-> "http", status |-> st, ep |-> ep]

\* Any other failure of an operation: transport, JSON decoding, storage,
\* context cancellation.
Failure(kind, ep) == [kind |-> kind, status |-> -1, ep |-> ep]

\* httputil.ErrorStatus: the status of an HTTPError in the chain, else -1.
ErrorStatus(err) == IF err.kind = "http" THEN err.status ELSE -1

\* What index.Read can fail with.
ReadErrors == {Failure("net", "index"), HTTPError(500, "index")}

\* ErrorState.Set, dropping the error.
SetDropped(cur, err) == cur

\* jiter.ErrorState.Set: the first error wins.
Set(cur, err) == IF cur = Nil THEN err ELSE cur

\* ------------------------------------------------------------------ registry

NoVersion == [num |-> 0, pre |-> 0, inc |-> FALSE]

\* ecodb.Module without ID and Path: what InsertArgs/UpdateArgs write beside the path.
Module(error, latestVersion, infoTime) ==
    [error |-> error, latest_version |-> latestVersion, info_time |-> infoTime]

\* &ecodb.Module{Path: p}: every other field is the zero value.
EmptyModule == Module(<<>>, NoVersion, 0)

\* Rows earlier invocations leave in the modules table.
SomeVersion == [num |-> 1, pre |-> 0, inc |-> FALSE]
SomeText == <<"novers", -1, "list">>
StoredModules ==
    {EmptyModule, Module(<<>>, SomeVersion, 1), Module(<<>>, SomeVersion, 0),
     Module(SomeText, NoVersion, 0)}

Registries == UNION {[D -> StoredModules] : D \in SUBSET Paths}

\* For the ingest phase a row is resolved or not there.
IngestRegistries == UNION {[D -> {Module(<<>>, SomeVersion, 1)}] : D \in SUBSET Paths}

\* ------------------------------------------------------------------ versions

\* A version string vX.Y.Z[-prerelease][+incompatible] is the record of: num,
\* the rank of X.Y.Z in numeric order (0 only in NoVersion); pre, 0 for no
\* prerelease and else the rank of the prerelease string in semver's order of
\* prerelease strings; inc, whether the string ends in +incompatible.
Version(num, pre, inc) == [num |-> num, pre |-> pre, inc |-> inc]

\* semver.Prerelease(v) == "".
IsRelease(v) == v.pre = 0

\* module.IsPseudoVersion: the prerelease string has the pseudo-version form
\* (timestamp and commit hash).  The prerelease strings of even rank have it, so
\* tagged prereleases occur below and above a pseudo-version in semver order.
IsPseudoVersion(v) == v.pre # 0 /\ v.pre % 2 = 0

\* versions.IsIncompatible.
IsIncompatible(v) == v.inc

\* semver.Compare: -1, 0 or +1; X.Y.Z first, then a release above every
\* prerelease of it, then the prerelease strings; build metadata is ignored.
Compare(v, w) ==
    IF v.num # w.num THEN (IF v.num < w.num THEN -1 ELSE 1)
    ELSE IF v.pre = w.pre THEN 0
    ELSE IF v.pre = 0 THEN 1
    ELSE IF w.pre = 0 THEN -1
    ELSE IF v.pre < w.pre THEN -1 ELSE 1

\* Later, true of equal versions too.
LaterOrEqual(v1, v2) ==
    IF IsRelease(v1) /\ IsRelease(v2) THEN Compare(v1, v2) >= 0
    ELSE IF IsRelease(v1) # IsRelease(v2) THEN IsRelease(v1)
    ELSE IF IsPseudoVersion(v1) = IsPseudoVersion(v2) THEN Compare(v1, v2) > 0
    ELSE ~IsPseudoVersion(v1)

\* Later by semver alone.
LaterSemver(v1, v2) == Compare(v1, v2) > 0

\* Later without the preference of a release over a prerelease: the two are
\* compared by semver.
LaterReleaseBySemver(v1, v2) ==
    IF IsRelease(v1) \/ IsRelease(v2) THEN Compare(v1, v2) > 0
    ELSE IF IsPseudoVersion(v1) = IsPseudoVersion(v2) THEN Compare(v1, v2) > 0
    ELSE ~IsPseudoVersion(v1)

\* versions.Later.
Later(v1, v2) ==
    LET rel1 == IsRelease(v1)
        rel2 == IsRelease(v2)
        pseudo1 == IsPseudoVersion(v1)
        pseudo2 == IsPseudoVersion(v2)
    IN  IF rel1 /\ rel2 THEN Compare(v1, v2) > 0
        ELSE IF rel1 # rel2 THEN rel1
        ELSE IF pseudo1 = pseudo2 THEN Compare(v1, v2) > 0
        ELSE ~pseudo1

\* versions.LatestOf: latest[i] is `latest` after the loop reached versions[i].
LatestOf(versions) ==
    LET latest[i \in 1..Len(versions)] ==
            IF i = 1 THEN versions[1]
            ELSE IF Later(versions[i], latest[i - 1]) THEN versions[i] ELSE latest[i - 1]
    IN  IF Len(versions) = 0 THEN NoVersion ELSE latest[Len(versions)]

\* What versions.Latest returns, and the versions it called hasGoMod with.
Resolved(v, err, asked) == [v |-> v, err |-> err, asked |-> asked]

\* versions.Latest dropping the error of hasGoMod.
LatestIncompatibleQuiet(latest, latestCompat, has) ==
    IF has.err # Nil THEN Resolved(NoVersion, Nil, <<latestCompat>>)
    ELSE IF has.has THEN Resolved(latestCompat, Nil, <<latestCompat>>)
    ELSE Resolved(latest, Nil, <<latestCompat>>)

\* versions.Latest keeping the incompatible latest whatever hasGoMod reports.
LatestIncompatibleAlways(latest, latestCompat, has) ==
    IF has.err # Nil THEN Resolved(NoVersion, has.err, <<latestCompat>>)
    ELSE Resolved(latest, Nil, <<latestCompat>>)

\* versions.Latest from `latestCompat, err := hasGoMod(latestCompat)` on, when
\* latest is incompatible and there is a latestCompat.
LatestIncompatible(latest, latestCompat, has) ==
    IF has.err # Nil THEN Resolved(NoVersion, has.err, <<latestCompat>>)
    ELSE IF has.has THEN Resolved(latestCompat, Nil, <<latestCompat>>)
    ELSE Resolved(latest, Nil, <<latestCompat>>)

\* versions.Latest asking hasGoMod before looking at latest.
LatestGivenEager(latest, latestCompat, hasGoMod) ==
    IF latest = NoVersion THEN Resolved(NoVersion, Nil, <<>>)
    ELSE IF latestCompat = NoVersion THEN Resolved(latest, Nil, <<>>)
    ELSE IF ~IsIncompatible(latest) THEN Resolved(latest, Nil, <<latestCompat>>)
    ELSE LatestIncompatible(latest, latestCompat, hasGoMod[latestCompat])

\* versions.Latest after latest and latestCompat are computed.
LatestGiven(latest, latestCompat, hasGoMod) ==
    IF latest = NoVersion THEN Resolved(NoVersion, Nil, <<>>)
    ELSE IF ~IsIncompatible(latest) THEN Resolved(latest, Nil, <<>>)
    ELSE IF latestCompat = NoVersion THEN Resolved(latest, Nil, <<>>)
    ELSE LatestIncompatible(latest, latestCompat, hasGoMod[latestCompat])

\* versions.Latest; hasGoMod[v] is [err, has], what hasGoMod(v) returns.
Latest(versions, hasGoMod) ==
    LatestGiven(LatestOf(versions),
                LatestOf(SelectSeq(versions,
                                   LAMBDA v : ~(IsIncompatible(v) \/ IsPseudoVersion(v)))),
                hasGoMod)

\* ------------------------------------------------------------------ latestModuleVersion

\* What the proxy answers.  A response has err (Nil: status 200) and the body:
\* the version list of @v/list; the Version of @latest; of a .mod file the
\* index of its first newline (-1: none), its length, whether modfile.ParseLax
\* accepts it and the retract ranges it declares; the Time of a .info file.
ListResponse(err, versions) == [err |-> err, versions |-> versions]
LatestResponse(err, v) == [err |-> err, v |-> v]
ModResponse(err, first, len, parses, retract) ==
    [err |-> err, first |-> first, len |-> len, parses |-> parses, retract |-> retract]
InfoResponse(err, time) == [err |-> err, time |-> time]

errNoVersions == Failure("novers", "list")

\* isRetracted with the ends of a range left out of it.
isRetractedInside(retract, resolvedVersion) ==
    \E r \in retract : Compare(resolvedVersion, r.low) > 0 /\ Compare(resolvedVersion, r.high) < 0

\* isRetracted.
isRetracted(retract, resolvedVersion) ==
    \E r \in retract : Compare(resolvedVersion, r.low) >= 0 /\ Compare(resolvedVersion, r.high) <= 0

\* The closure hasGoMod of latestModuleVersion, as the function of the version:
\* the error of proxy.Mod, else whether the first newline is not the last byte.
hasGoMod(mod) ==
    [v \in DOMAIN mod |->
        [err |-> mod[v].err,
         has |-> mod[v].err = Nil /\ mod[v].first # mod[v].len - 1]]

\* What latestModuleVersion returns, the requests it made in order and the
\* versions hasGoMod was called with.
Answer(v, err, calls, asked) == [v |-> v, err |-> err, calls |-> calls, asked |-> asked]

\* The requests of hasGoMod for the versions it was called with.
ModCalls(asked) == [i \in DOMAIN asked |-> <<"mod", asked[i]>>]

\* latestModuleVersion, the last statement: cooked is what versions.Latest
\* returned for unretractedVersions.
cookedLatest(calls, raw, cooked) ==
    Answer(IF cooked.err # Nil THEN NoVersion ELSE cooked.v, cooked.err,
           calls \o ModCalls(cooked.asked), raw.asked \o cooked.asked)

\* latestModuleVersion resolving a second time whatever was retracted.
unretractedLatestAgain(s, allVersions, calls, raw, unretractedVersions) ==
    cookedLatest(calls, raw, Latest(unretractedVersions, hasGoMod(s.mod)))

\* latestModuleVersion after unretractedVersions is computed.
unretractedLatest(s, allVersions, calls, raw, unretractedVersions) ==
    IF Len(allVersions) = Len(unretractedVersions) THEN Answer(raw.v, Nil, calls, raw.asked)
    ELSE cookedLatest(calls, raw, Latest(unretractedVersions, hasGoMod(s.mod)))

\* latestModuleVersion returning nil for the error of versions.Latest.
rawLatestNil(s, allVersions, calls, raw, modBytes) ==
    IF raw.err # Nil THEN Answer(NoVersion, Nil, calls \o ModCalls(raw.asked), raw.asked)
    ELSE IF modBytes.err # Nil
         THEN Answer(NoVersion, modBytes.err,
                     Append(calls \o ModCalls(raw.asked), <<"mod", raw.v>>), raw.asked)
    ELSE IF ~modBytes.parses
         THEN Answer(raw.v, Nil, Append(calls \o ModCalls(raw.asked), <<"mod", raw.v>>),
                     raw.asked)
    ELSE unretractedLatest(s, allVersions,
                           Append(calls \o ModCalls(raw.asked), <<"mod", raw.v>>), raw,
                           SelectSeq(allVersions,
                                     LAMBDA v : ~isRetracted(modBytes.retract, v)))

\* latestModuleVersion after rawLatest: raw is what versions.Latest returned
\* for allVersions, modBytes the response to proxy.Mod at raw.v.
rawLatest(s, allVersions, calls, raw, modBytes) ==
    IF raw.err # Nil THEN Answer(NoVersion, raw.err, calls \o ModCalls(raw.asked), raw.asked)
    ELSE IF modBytes.err # Nil
         THEN Answer(NoVersion, modBytes.err,
                     Append(calls \o ModCalls(raw.asked), <<"mod", raw.v>>), raw.asked)
    ELSE IF ~modBytes.parses
         THEN Answer(raw.v, Nil, Append(calls \o ModCalls(raw.asked), <<"mod", raw.v>>),
                     raw.asked)
    ELSE unretractedLatest(s, allVersions,
                           Append(calls \o ModCalls(raw.asked), <<"mod", raw.v>>), raw,
                           SelectSeq(allVersions,
                                     LAMBDA v : ~isRetracted(modBytes.retract, v)))

\* The response to proxy.Mod at the version versions.Latest returned (there is
\* no request when it returned an error).
ModAt(s, raw) == IF raw.v \in DOMAIN s.mod THEN s.mod[raw.v] ELSE ModResponse(Nil, -1, 0, FALSE, {})

\* latestModuleVersion from `seen := map[string]bool{}` on.
latestFromVersions(s, allVersions, calls, raw) ==
    rawLatest(s, allVersions, calls, raw, ModAt(s, raw))

\* latestModuleVersion after the list and @latest requests.
latestAmong(s, allVersions, calls) ==
    IF Len(allVersions) = 0 THEN Answer(NoVersion, errNoVersions, calls, <<>>)
    ELSE latestFromVersions(s, allVersions, calls, Latest(allVersions, hasGoMod(s.mod)))

\* latestModuleVersion, given the proxy's responses s.
latestModuleVersion(s) ==
    IF s.list.err # Nil THEN Answer(NoVersion, s.list.err, <<<<"list", NoVersion>>>>, <<>>)
    ELSE IF ErrorStatus(s.latest.err) # 404 /\ s.latest.err # Nil
         THEN Answer(NoVersion, s.latest.err,
                     <<<<"list", NoVersion>>, <<"latest", NoVersion>>>>, <<>>)
    ELSE latestAmong(s,
                     IF s.latest.err = Nil THEN Append(s.list.versions, s.latest.v)
                     ELSE s.list.versions,
                     <<<<"list", NoVersion>>, <<"latest", NoVersion>>>>)

\* ------------------------------------------------------------------ state

VARIABLES
    feed,            \* the upstream index: entries in timestamp order
    db,              \* table modules: path -> row
    param,           \* table params, row indexSince (0: no row)
    run,             \* invocations of the command started so far
    pc,              \* where updateCmd.Run is
    runErr,          \* what Run returned (Nil while running)
    mods,            \* Run: the in-memory map read by allModules
    db0,             \* the modules table as it was when the run started
    since,           \* updateFromIndex: since
    seen,            \* updateFromIndex: seen
    latestTimestamp, \* updateFromIndex: latestTimestamp
    esince,          \* Entries: since (the cursor)
    prevs,           \* Entries: prevs
    page,            \* Entries: entries
    idx,             \* Entries: position of the range loop in entries
    n,               \* Entries: n
    esErr,           \* Entries: es.err
    esDone,          \* Entries: es.done
    drainEnd,        \* which return ended the iterator: none/error/empty/stopped
    yielded,         \* entries passed to yield in this drain, in order
    prevYielded,     \* entries passed to yield in the previous drain
    prevLatest,      \* latestTimestamp at the end of the previous drain
    txDb,            \* the open transaction's view of table modules
    txTodo,          \* paths of seen the transaction has not written yet
    rows,            \* table modules: per path, the number of rows with it
    txRows,          \* the open transaction's view of rows
    toUpdate,        \* updateModuleFromProxy: toUpdate, as paths
    task,            \* per path: where the function passed to g.Go is
    lerr,            \* per path: err of latestModuleVersion in populateModuleFromProxy
    ret,             \* per path: what the function passed to g.Go returned
    fetched,         \* per path: the proxy endpoints requested for it
    writes,          \* per path: ModuleUpdateStmt executions that succeeded
    muHeld,          \* mu is locked
    cancelled,       \* gctx is cancelled
    gErr,            \* the errgroup's err: what g.Wait returns
    limit,           \* the limit of the errgroup
    op,              \* package versions: the function called ("none": not yet)
    args,            \* package versions: the versions it is called with
    answer,          \* package versions: what hasGoMod answers
    result,          \* package versions: what the function returned
    script,          \* latestModuleVersion: what the proxy answers for the path
    now,             \* the clock, in ticks
    maxQPS,          \* package proxy: maxQPS
    burst,           \* package proxy: the burst of limiter
    tokens,          \* package proxy: the tokens of limiter, in ticks of credit
    ncalls,          \* package proxy: ncalls
    sent,            \* the requests passed to httputil.DoReadBody, in order: when and by whom
    taken,           \* the times lim.Wait returned nil, in order
    cacheEnabled,    \* package proxy: cacheEnabled
    cache,           \* cacheDir: per URL the file of it
    fpc,             \* per caller: where its call of fetchCached or fetch is
    furl,            \* per caller: the URL of its call, or of its last call
    fvia,            \* per caller: whether fetch was called by fetchCached
    fctx,            \* the context of the callers (gctx) is done
    fres             \* what the last call to return returned

ingestVars == <<feed, db, param, run, pc, runErr, mods, db0, since, seen,
                latestTimestamp, esince, prevs, page, idx, n, esErr, esDone,
                drainEnd, yielded, prevYielded, prevLatest, txDb, txTodo, rows, txRows>>

resolveVars == <<toUpdate, task, lerr, ret, fetched, writes, muHeld, cancelled,
                 gErr, limit>>

callVars == <<op, args, answer, result>>

limVars == <<maxQPS, burst, tokens>>
logVars == <<ncalls, sent, taken>>
cacheVars == <<cacheEnabled, cache>>
callerVars == <<fpc, furl, fvia, fctx, fres>>
fetchVars == <<now, limVars, logVars, cacheVars, callerVars>>

proxyVars == <<script, fetchVars>>

vars == <<ingestVars, resolveVars, callVars, proxyVars>>

restVars == <<callVars, rows, resolveVars, proxyVars>>

iterVars == <<esince, prevs, page, idx, n, esErr, esDone, drainEnd>>
txVars == <<txDb, txTodo, txRows>>
histVars == <<db0, prevYielded, prevLatest>>

\* No path asked about.
NoScript ==
    [list |-> ListResponse(Nil, <<>>),
     latest |-> LatestResponse(HTTPError(404, "latest"), NoVersion),
     mod |-> [v \in {} |-> ModResponse(Nil, -1, 0, TRUE, {})]]

\* Ticks in a second.
Second == 3
\* SetMaxQPS is called with 1..MaxQPS.
MaxQPS == 2
\* The burst of the limiter (defaultBurst) is 1..MaxBurst.
MaxBurst == 2
\* The clock stops at MaxNow.
MaxNow == 3
\* Requests passed to httputil.DoReadBody in a behaviour.
MaxCalls == 4
\* Goroutines calling package proxy.
MaxCallers == 2
\* URLs requested.
MaxURLs == 2
\* Bodies the upstream answers a request with.
MaxBodies == 2
\* cacheTTL, in ticks.
cacheTTL == 2

Callers == 1..MaxCallers
URLs == 1..MaxURLs
Bodies == 1..MaxBodies

\* rate.Every(time.Second / time.Duration(qps)): the ticks between two tokens,
\* an integer division.
Interval(qps) == Second \div qps

\* The tokens of a full limiter, as ticks of credit.
Full(qps, b) == b * Interval(qps)

\* No file of the URL in cacheDir; else the status and body the file holds and
\* its modification time.
NoFile == [status |-> 0, body |-> 0, mtime |-> 0]
File(status, body, mtime) == [status |-> status, body |-> body, mtime |-> mtime]

\* What fetch, fetchCached and httputil.DoReadBody return: ([]byte, error).
Returned(body, err) == [body |-> body, err |-> err]

\* Nothing of package proxy called: the limiter of init, full.
NoFetch ==
    /\ now = 0
    /\ tokens = Full(maxQPS, burst)
    /\ ncalls = 0
    /\ sent = <<>>
    /\ taken = <<>>
    /\ cache = [u \in URLs |-> NoFile]
    /\ fpc = [c \in Callers |-> "idle"]
    /\ furl = [c \in Callers |-> 1]
    /\ fvia = [c \in Callers |-> "fetch"]
    /\ fctx = FALSE
    /\ fres = Returned(0, Nil)

\* Package proxy at rest.
NoProxy ==
    /\ script = NoScript
    /\ maxQPS = MaxQPS
    /\ burst = MaxBurst
    /\ cacheEnabled = FALSE
    /\ NoFetch

\* ------------------------------------------------------------------ index

Entry(p, v, t) == [path |-> p, version |-> v, ts |-> t]

LastTs(f) == IF Len(f) = 0 THEN 1 ELSE f[Len(f)].ts

\* The index publishes a module version: it is appended, with a timestamp no
\* earlier than the last one, and a (path, version) pair is published once.
\* The program observes the index only in Read, so a publication is taken
\* when the next step of the program is a Read or the start of a run.
Publish ==
    /\ pc \in {"idle", "read", "ingested", "done"}
    /\ pc = "read" \/ run < MaxRuns
    /\ Len(feed) < MaxFeed
    /\ \E p \in Paths, v \in FeedVersions, t \in Timestamps :
          /\ t >= LastTs(feed)
          /\ \A i \in DOMAIN feed : ~(feed[i].path = p /\ feed[i].version = v)
          /\ feed' = Append(feed, Entry(p, v, t))
    /\ UNCHANGED <<restVars, db, param, run, pc, runErr, mods, since, seen, latestTimestamp,
                   yielded, iterVars, txVars, histVars>>

\* index.Read answered from the start of the index, whatever since is.
ReadFromStart(f, s) == SubSeq(f, 1, Min(PageSize, Len(f)))

\* index.Read(ctx, since, 0) when the request succeeds: the server returns, in
\* order, the entries with timestamp >= since, at most PageSize of them.
Read(f, s) ==
    LET sel == SelectSeq(f, LAMBDA e : e.ts >= s)
    IN  SubSeq(sel, 1, Min(PageSize, Len(sel)))

\* Remember, forgetting all but the page's last entry.
RememberLast(entries, s) == {entries[Len(entries)]}

\* Entries, the loop after `clear(prevs)`: the entries at the end of the page
\* whose timestamp is the page's last.
Remember(entries, s) ==
    {entries[i] : i \in {j \in DOMAIN entries :
                           \A k \in j..Len(entries) : entries[k].ts = s}}

\* ------------------------------------------------------------------ Run: start

\* updateCmd.Run up to the start of the drain: openDB, allModules, the query of
\* indexSince, index.Entries.
RunStart ==
    /\ pc \in {"idle", "ingested", "done"}
    /\ run < MaxRuns
    /\ run' = run + 1
    /\ mods' = db
    /\ since' = param
    /\ runErr' = Nil
    /\ pc' = "read"
    /\ prevYielded' = Range(yielded)
    /\ prevLatest' = latestTimestamp
    /\ db0' = db
    /\ yielded' = <<>>
    /\ seen' = {}
    /\ latestTimestamp' = 0
    /\ esince' = param
    /\ prevs' = {}
    /\ page' = <<>>
    /\ idx' = 1
    /\ n' = 0
    /\ esErr' = Nil
    /\ esDone' = FALSE
    /\ drainEnd' = "none"
    /\ UNCHANGED <<restVars, feed, db, param, txVars>>

\* updateCmd.Run returns early: allModules or the query of indexSince fails.
RunStartFail ==
    /\ pc \in {"idle", "ingested", "done"}
    /\ run < MaxRuns
    /\ run' = run + 1
    /\ \E ep \in {"allModules", "indexSince"} : runErr' = Failure("db", ep)
    /\ pc' = "done"
    /\ db0' = db
    /\ UNCHANGED <<restVars, feed, db, param, mods, since, seen, latestTimestamp, yielded,
                   iterVars, txVars, prevYielded, prevLatest>>

\* ------------------------------------------------------------------ Entries

\* The iterator function returns: its locals are gone.
Return ==
    /\ esince' = 0
    /\ prevs' = {}
    /\ page' = <<>>
    /\ idx' = 1
    /\ n' = 0

\* Entries: Read returns a page.
ReadPage ==
    /\ pc = "read"
    /\ page' = Read(feed, esince)
    /\ idx' = 1
    /\ n' = 0
    /\ pc' = "iter"
    /\ UNCHANGED <<restVars, feed, db, param, run, runErr, mods, since, seen, latestTimestamp,
                   yielded, esince, prevs, esErr, esDone, drainEnd, txVars, histVars>>

\* Entries: Read fails with err; es.Set(err), return (and the deferred es.Done).
ReadFailWith(err) ==
    /\ pc = "read"
    /\ esErr' = Set(esErr, err)
    /\ esDone' = TRUE
    /\ drainEnd' = "error"
    /\ pc' = "errf"
    /\ Return
    /\ UNCHANGED <<restVars, feed, db, param, run, runErr, mods, since, seen, latestTimestamp,
                   yielded, txVars, histVars>>

ReadFail == \E err \in ReadErrors : ReadFailWith(err)

\* Entries: `if prevs[*e] { continue }`.
Skip ==
    /\ pc = "iter"
    /\ idx <= Len(page)
    /\ page[idx] \in prevs
    /\ idx' = idx + 1
    /\ UNCHANGED <<restVars, feed, db, param, run, pc, runErr, mods, since, seen, latestTimestamp,
                   yielded, esince, prevs, page, n, esErr, esDone, drainEnd,
                   txVars, histVars>>

\* updateFromIndex, the loop body when the deadline has not passed.
Consume(e) ==
    /\ seen' = seen \cup {e.path}
    /\ latestTimestamp' = e.ts

\* Entries yields an entry and the loop body of updateFromIndex keeps it.
Yield ==
    /\ pc = "iter"
    /\ idx <= Len(page)
    /\ page[idx] \notin prevs
    /\ yielded' = Append(yielded, page[idx])
    /\ Consume(page[idx])
    /\ n' = n + 1
    /\ idx' = idx + 1
    /\ UNCHANGED <<restVars, feed, db, param, run, pc, runErr, mods, since, esince, prevs, page,
                   esErr, esDone, drainEnd, txVars, histVars>>

\* Entries yields an entry and the loop body finds the deadline passed: break,
\* so yield returns false and the iterator returns.
YieldBreak ==
    /\ pc = "iter"
    /\ idx <= Len(page)
    /\ page[idx] \notin prevs
    /\ yielded' = Append(yielded, page[idx])
    /\ esDone' = TRUE
    /\ drainEnd' = "stopped"
    /\ pc' = "errf"
    /\ Return
    /\ UNCHANGED <<restVars, feed, db, param, run, runErr, mods, since, seen, latestTimestamp,
                   esErr, txVars, histVars>>

\* Entries, after the range loop over a page.
EndPage ==
    /\ pc = "iter"
    /\ idx > Len(page)
    /\ \/ /\ n = 0
          /\ esDone' = TRUE
          /\ drainEnd' = "empty"
          /\ pc' = "errf"
          /\ Return
       \/ /\ n > 0
          /\ esince' = page[Len(page)].ts
          /\ prevs' = Remember(page, page[Len(page)].ts)
          /\ pc' = "read"
          /\ UNCHANGED <<page, idx, n, esDone, drainEnd>>
    /\ UNCHANGED <<restVars, feed, db, param, run, runErr, mods, since, seen, latestTimestamp,
                   yielded, esErr, txVars, histVars>>

\* ------------------------------------------------------------------ updateFromIndex

\* updateFromIndex going on to the transaction without the test of errf().
AfterDrainUnchecked ==
    /\ pc = "errf"
    /\ \/ /\ txDb' = db
          /\ txTodo' = seen
          /\ txRows' = rows
          /\ pc' = "tx"
          /\ UNCHANGED runErr
       \/ /\ runErr' = Failure("db", "begin")
          /\ pc' = "done"
          /\ UNCHANGED txVars
    /\ UNCHANGED <<restVars, feed, db, param, run, mods, since, seen, latestTimestamp, yielded,
                   iterVars, histVars>>

\* `if err := errf(); err != nil { return ... }`, then database.Transaction
\* begins: db.Begin and the two PrepareContext calls.
AfterDrain ==
    /\ pc = "errf"
    /\ \/ /\ esErr # Nil
          /\ runErr' = esErr
          /\ pc' = "done"
          /\ UNCHANGED txVars
       \/ /\ esErr = Nil
          /\ txDb' = db
          /\ txTodo' = seen
          /\ txRows' = rows
          /\ pc' = "tx"
          /\ UNCHANGED runErr
       \/ \* Begin or a Prepare fails
          /\ esErr = Nil
          /\ runErr' = Failure("db", "begin")
          /\ pc' = "done"
          /\ UNCHANGED txVars
    /\ UNCHANGED <<restVars, feed, db, param, run, mods, since, seen, latestTimestamp, yielded,
                   iterVars, histVars>>

\* ModuleUpdateStmt leaving the row as it is.
UpdateRowKept(t, p, m) == t

\* ModuleUpdateStmt with the arguments of &ecodb.Module{ID, Path}: the row of
\* the path, if there is one, gets empty error, latest_version and info_time.
UpdateRow(t, p, m) == IF p \in DOMAIN t THEN [t EXCEPT ![p] = m] ELSE t

\* ModuleInsertStmt: a new row.
InsertRow(t, p, m) == [q \in DOMAIN t \cup {p} |-> IF q = p THEN m ELSE t[q]]

\* tx.Rollback: the transaction's writes are dropped.
Rollback ==
    /\ txDb' = db
    /\ txTodo' = {}
    /\ txRows' = rows

\* `mod, inDB := mods[p]` answering that no path is in the map.
InDBNever(p) == FALSE

\* `mod, inDB := mods[p]`.
InDB(p) == p \in DOMAIN mods

\* One iteration of `for p := range seen` inside the transaction.
TxExec ==
    /\ pc = "tx"
    /\ \E p \in txTodo :
          /\ \/ /\ InDB(p)
                /\ txDb' = UpdateRow(txDb, p, EmptyModule)
                /\ txTodo' = txTodo \ {p}
                /\ UNCHANGED <<mods, runErr, pc, txRows>>
             \/ /\ ~InDB(p)
                /\ mods' = InsertRow(mods, p, EmptyModule)
                /\ txDb' = InsertRow(txDb, p, EmptyModule)
                /\ txRows' = [txRows EXCEPT ![p] = @ + 1]
                /\ txTodo' = txTodo \ {p}
                /\ UNCHANGED <<runErr, pc>>
             \/ \* the update fails: f returns the error, the deferred Rollback runs
                /\ InDB(p)
                /\ Rollback
                /\ runErr' = Failure("db", "update")
                /\ pc' = "done"
                /\ UNCHANGED mods
             \/ \* the insert fails, after mods[p] was set
                /\ ~InDB(p)
                /\ mods' = InsertRow(mods, p, EmptyModule)
                /\ Rollback
                /\ runErr' = Failure("db", "insert")
                /\ pc' = "done"
    /\ UNCHANGED <<restVars, feed, db, param, run, since, seen, latestTimestamp, yielded,
                   iterVars, histVars>>

\* database.Transaction: f returned nil, tx.Commit.
TxCommit ==
    /\ pc = "tx"
    /\ txTodo = {}
    /\ \/ /\ db' = txDb
          /\ rows' = txRows
          /\ pc' = "param"
          /\ UNCHANGED <<runErr, txVars>>
       \/ \* Commit fails: nothing of the transaction is visible
          /\ Rollback
          /\ runErr' = Failure("db", "commit")
          /\ pc' = "done"
          /\ UNCHANGED <<db, rows>>
    /\ UNCHANGED <<callVars, proxyVars, resolveVars, feed, param, run, mods, since, seen, latestTimestamp, yielded,
                   iterVars, histVars>>

\* The upsert writing the timestamp of the last entry yielded.
IndexSinceArgYielded == IF Len(yielded) = 0 THEN 0 ELSE yielded[Len(yielded)].ts

\* The upsert writing the timestamp after the last one consumed.
IndexSinceArgNext == latestTimestamp + 1

\* The value the upsert of indexSince writes.
IndexSinceArg == latestTimestamp

\* `if latestTimestamp != "" { INSERT INTO params ... ON CONFLICT DO UPDATE }`.
WriteParam ==
    /\ pc = "param"
    /\ \/ /\ latestTimestamp # 0
          /\ param' = IndexSinceArg
          /\ pc' = "ingested"
          /\ UNCHANGED runErr
       \/ /\ latestTimestamp # 0
          /\ runErr' = Failure("db", "updating indexSince")
          /\ pc' = "done"
          /\ UNCHANGED param
       \/ /\ latestTimestamp = 0
          /\ pc' = "ingested"
          /\ UNCHANGED <<param, runErr>>
    /\ UNCHANGED <<restVars, feed, db, run, mods, since, seen, latestTimestamp, yielded,
                   iterVars, txVars, histVars>>

\* ------------------------------------------------------------------ package versions: calls

\* X.Y.Z ranks are 1..MaxNum.
MaxNum == 2
\* Prerelease ranks are 1..MaxPre.
MaxPre == 3
\* Versions in a list a function of the package is called with.
MaxLen == 3

\* The valid version strings.
Versions == {Version(num, pre, inc) : num \in 1..MaxNum, pre \in 0..MaxPre, inc \in BOOLEAN}

\* What a hasGoMod passed to Latest answers: (true, nil), (false, nil) or an error.
HasAnswers ==
    {[err |-> Nil, has |-> TRUE], [err |-> Nil, has |-> FALSE],
     [err |-> Failure("net", "mod"), has |-> FALSE]}

\* What Later returned, in the shape of what Latest returns.
Reported(later) == [later |-> later, v |-> NoVersion, err |-> Nil, asked |-> <<>>]

\* No function of the package called.
NoCall ==
    /\ op = "none"
    /\ args = <<>>
    /\ answer = [err |-> Nil, has |-> FALSE]
    /\ result = Resolved(NoVersion, Nil, <<>>)

\* versions.Later(args[1], args[2]).
CallLater ==
    /\ op = "none"
    /\ Len(args) = 2
    /\ op' = "Later"
    /\ result' = Reported(Later(args[1], args[2]))
    /\ UNCHANGED <<args, answer, ingestVars, resolveVars, proxyVars>>

\* versions.LatestOf(args).
CallLatestOf ==
    /\ op = "none"
    /\ op' = "LatestOf"
    /\ result' = Resolved(LatestOf(args), Nil, <<>>)
    /\ UNCHANGED <<args, answer, ingestVars, resolveVars, proxyVars>>

\* versions.Latest(args, hasGoMod) with a hasGoMod that gives the answer.
CallLatest ==
    /\ op = "none"
    /\ op' = "Latest"
    /\ result' = Latest(args, [v \in Versions |-> answer])
    /\ UNCHANGED <<args, answer, ingestVars, resolveVars, proxyVars>>

\* ------------------------------------------------------------------ populateModuleFromProxy

\* err.Error(): the text of an error names what failed and how.
ErrorText(err) == <<err.kind, err.status, err.ep>>

\* isNotFound, taking 404 alone as not found.
isNotFound404(err) == ErrorStatus(err) = 404

\* isNotFound.
isNotFound(err) == ErrorStatus(err) \in {404, 410}

\* `errors.Is(err, errNoVersions) || isNotFound(err)`.
IsSoft(err) == err = errNoVersions \/ isNotFound(err)

\* What populateModuleFromProxy leaves: the record, the error it returns, the
\* err of latestModuleVersion (Nil when it was not called) and the endpoints
\* it requested.
Populated(mod, err, lmvErr, eps) == [mod |-> mod, err |-> err, lerr |-> lmvErr, eps |-> eps]

\* populateModuleFromProxy going on without the info time when proxy.Info fails.
populateInfoLenient(mod, lmvErr, eps, info) ==
    IF mod.latest_version = NoVersion THEN Populated(mod, Nil, lmvErr, eps)
    ELSE IF info.err # Nil THEN Populated(mod, Nil, lmvErr, eps \cup {"info"})
    ELSE Populated([mod EXCEPT !.info_time = info.time], Nil, lmvErr, eps \cup {"info"})

\* populateModuleFromProxy from `if mod.LatestVersion != ""` on; mod is the
\* record as the first statement left it, lmvErr the err of that statement.
populateInfo(mod, lmvErr, eps, info) ==
    IF mod.latest_version = NoVersion THEN Populated(mod, Nil, lmvErr, eps)
    ELSE IF info.err # Nil THEN Populated(mod, info.err, lmvErr, eps \cup {"info"})
    ELSE Populated([mod EXCEPT !.info_time = info.time], Nil, lmvErr, eps \cup {"info"})

\* populateModuleFromProxy after latestModuleVersion returned a.
populateLatest(mod, a, eps, info) ==
    IF a.err = Nil THEN populateInfo([mod EXCEPT !.latest_version = a.v], Nil, eps, info)
    ELSE IF IsSoft(a.err)
         THEN populateInfo([mod EXCEPT !.error = ErrorText(a.err)], a.err, eps, info)
    ELSE Populated(mod, a.err, a.err, eps)

\* The endpoints among the requests.
Endpoints(calls) == {calls[i][1] : i \in DOMAIN calls}

\* populateModuleFromProxy when mod.LatestVersion is empty.
populateEmpty(mod, a, info) == populateLatest(mod, a, Endpoints(a.calls), info)

\* populateModuleFromProxy, given the proxy's responses s.
populateModuleFromProxy(mod, s) ==
    IF mod.latest_version = NoVersion THEN populateEmpty(mod, latestModuleVersion(s), s.info)
    ELSE populateInfo(mod, Nil, {}, s.info)

\* ------------------------------------------------------------------ the proxy

\* The versions the proxy serves of a path: a compatible release, and a later
\* release marked +incompatible.
ProxyVersions == {Version(1, 0, FALSE), Version(2, 0, TRUE)}

\* What a request to the proxy fails with: not found, gone, a server error,
\* or the context of the request is cancelled.
ProxyErrors(ep) ==
    {HTTPError(404, ep), HTTPError(410, ep), HTTPError(500, ep), Failure("ctx", ep)}

VersionLists == UNION {[1..k -> ProxyVersions] : k \in 0..1}

RetractRanges == {[low |-> l, high |-> h] : l \in ProxyVersions, h \in ProxyVersions}

ListResponses ==
    {ListResponse(Nil, l) : l \in VersionLists}
        \cup {ListResponse(e, <<>>) : e \in ProxyErrors("list")}

LatestResponses ==
    {LatestResponse(Nil, v) : v \in ProxyVersions}
        \cup {LatestResponse(e, NoVersion) : e \in ProxyErrors("latest")}

\* A .mod file of the module line only ("m\n") or with more lines; one that
\* does not parse, or one that retracts nothing or every version.
ModResponses ==
    {ModResponse(Nil, 1, 4, FALSE, {})}
        \cup {ModResponse(Nil, 1, len, TRUE, r) : len \in {2, 4}, r \in {{}, RetractRanges}}
        \cup {ModResponse(e, -1, 0, FALSE, {}) : e \in ProxyErrors("mod")}

InfoResponses == {InfoResponse(Nil, 1)} \cup {InfoResponse(e, 0) : e \in ProxyErrors("info")}

\* The responses of the proxy to the requests for one path.
Responses ==
    [list : ListResponses, latest : LatestResponses,
     mod : [ProxyVersions -> ModResponses], info : InfoResponses]

\* updateModuleFromProxy selecting without the test of Error.
NeedsProxyDespiteError(m) == m.latest_version = NoVersion \/ m.info_time = 0

\* updateModuleFromProxy selecting the records without a version only.
NeedsProxyVersionless(m) == m.error = <<>> /\ m.latest_version = NoVersion

\* The records updateModuleFromProxy selects.
NeedsProxy(m) == m.error = <<>> /\ (m.latest_version = NoVersion \/ m.info_time = 0)

\* What populateModuleFromProxy can leave of each record it is called on.
Outcomes ==
    [m \in {x \in StoredModules : NeedsProxy(x)} |->
        {populateModuleFromProxy(m, s) : s \in Responses}]

\* ------------------------------------------------------------------ updateModuleFromProxy

\* g.SetLimit(10).
WorkerLimit == 10

\* Limits the errgroup is run with beside WorkerLimit are 1..MaxLimit.
MaxLimit == 2

\* No errgroup yet.
NoGroup ==
    /\ toUpdate = {}
    /\ task = [p \in Paths |-> "none"]
    /\ lerr = [p \in Paths |-> Nil]
    /\ ret = [p \in Paths |-> Nil]
    /\ fetched = [p \in Paths |-> {}]
    /\ writes = [p \in Paths |-> 0]
    /\ muHeld = FALSE
    /\ cancelled = FALSE
    /\ gErr = Nil

\* Functions passed to g.Go that have not returned.
Active == {p \in Paths : task[p] \in {"populate", "lock", "write"}}

\* updateModuleFromProxy called whatever updateFromIndex returned.
ResolveStartAnyway ==
    /\ pc \in {"ingested", "done"}
    /\ pc' = "resolve"
    /\ toUpdate' = {p \in DOMAIN mods : NeedsProxy(mods[p])}
    /\ task' = [p \in Paths |-> IF p \in DOMAIN mods /\ NeedsProxy(mods[p])
                                THEN "pending" ELSE "none"]
    /\ lerr' = [p \in Paths |-> Nil]
    /\ ret' = [p \in Paths |-> Nil]
    /\ fetched' = [p \in Paths |-> {}]
    /\ writes' = [p \in Paths |-> 0]
    /\ muHeld' = FALSE
    /\ cancelled' = FALSE
    /\ gErr' = Nil
    /\ UNCHANGED <<callVars, proxyVars, rows, limit, feed, db, param, run, runErr, mods, since, seen,
                   latestTimestamp, yielded, iterVars, txVars, histVars>>

\* updateModuleFromProxy up to the loop over toUpdate.
ResolveStart ==
    /\ pc = "ingested"
    /\ pc' = "resolve"
    /\ toUpdate' = {p \in DOMAIN mods : NeedsProxy(mods[p])}
    /\ task' = [p \in Paths |-> IF p \in DOMAIN mods /\ NeedsProxy(mods[p])
                                THEN "pending" ELSE "none"]
    /\ lerr' = [p \in Paths |-> Nil]
    /\ ret' = [p \in Paths |-> Nil]
    /\ fetched' = [p \in Paths |-> {}]
    /\ writes' = [p \in Paths |-> 0]
    /\ muHeld' = FALSE
    /\ cancelled' = FALSE
    /\ gErr' = Nil
    /\ UNCHANGED <<callVars, proxyVars, rows, limit, feed, db, param, run, runErr, mods, since, seen,
                   latestTimestamp, yielded, iterVars, txVars, histVars>>

\* g.Go(func) in a group without a limit: the function starts at once.
GoUnlimited(p) ==
    /\ pc = "resolve"
    /\ task[p] = "pending"
    /\ task' = [task EXCEPT ![p] = "populate"]
    /\ UNCHANGED <<callVars, proxyVars, toUpdate, lerr, ret, fetched, writes, muHeld, cancelled, gErr, limit,
                   ingestVars>>

\* g.Go(func): blocks until fewer than limit functions are active, then starts
\* the function on the next record of toUpdate.
Go(p) ==
    /\ pc = "resolve"
    /\ task[p] = "pending"
    /\ Cardinality(Active) < limit
    /\ task' = [task EXCEPT ![p] = "populate"]
    /\ UNCHANGED <<callVars, proxyVars, toUpdate, lerr, ret, fetched, writes, muHeld, cancelled, gErr, limit,
                   ingestVars>>

\* The function returning err # nil in a group that does not cancel its context.
FailNoCancel(p, err) ==
    /\ task' = [task EXCEPT ![p] = "failed"]
    /\ ret' = [ret EXCEPT ![p] = err]
    /\ gErr' = IF gErr = Nil THEN err ELSE gErr
    /\ cancelled' = cancelled

\* The function passed to g.Go returns err # nil: the errgroup keeps the first
\* such error and cancels gctx.
Fail(p, err) ==
    /\ task' = [task EXCEPT ![p] = "failed"]
    /\ ret' = [ret EXCEPT ![p] = err]
    /\ gErr' = IF gErr = Nil THEN err ELSE gErr
    /\ cancelled' = TRUE

\* populateModuleFromProxy(gctx, mod) and the test of its error.  Once gctx is
\* cancelled a request fails with the context's error, and only then.
PopulateWith(p, o) ==
    /\ pc = "resolve"
    /\ task[p] = "populate"
    /\ cancelled <=> o.err.kind = "ctx"
    /\ mods' = [mods EXCEPT ![p] = o.mod]
    /\ lerr' = [lerr EXCEPT ![p] = o.lerr]
    /\ fetched' = [fetched EXCEPT ![p] = o.eps]
    /\ \/ /\ o.err = Nil
          /\ task' = [task EXCEPT ![p] = "lock"]
          /\ UNCHANGED <<ret, gErr, cancelled>>
       \/ /\ o.err # Nil
          /\ Fail(p, o.err)
    /\ UNCHANGED <<callVars, proxyVars, rows, toUpdate, writes, muHeld, limit, feed, db, param, run, pc, runErr,
                   since, seen, latestTimestamp, yielded, iterVars, txVars, histVars>>

Populate(p) == task[p] = "populate" /\ \E o \in Outcomes[mods[p]] : PopulateWith(p, o)

\* mu.Lock().
Lock(p) ==
    /\ pc = "resolve"
    /\ task[p] = "lock"
    /\ ~muHeld
    /\ muHeld' = TRUE
    /\ task' = [task EXCEPT ![p] = "write"]
    /\ UNCHANGED <<callVars, proxyVars, toUpdate, lerr, ret, fetched, writes, cancelled, gErr, limit, ingestVars>>

\* The UPDATE returning its error with mu still locked.
WriteLockedOnError(p) ==
    /\ pc = "resolve"
    /\ task[p] = "write"
    /\ \/ /\ ~cancelled
          /\ muHeld' = FALSE
          /\ db' = UpdateRow(db, p, mods[p])
          /\ writes' = [writes EXCEPT ![p] = @ + 1]
          /\ task' = [task EXCEPT ![p] = "done"]
          /\ UNCHANGED <<ret, gErr, cancelled>>
       \/ /\ Fail(p, Failure(IF cancelled THEN "ctx" ELSE "db", "exec"))
          /\ UNCHANGED <<db, writes, muHeld>>
    /\ UNCHANGED <<callVars, proxyVars, rows, toUpdate, lerr, fetched, limit, feed, param, run, pc, runErr, mods,
                   since, seen, latestTimestamp, yielded, iterVars, txVars, histVars>>

\* db.ExecContext(gctx, ecodb.ModuleUpdateStmt, mod.UpdateArgs()...), then
\* mu.Unlock() on either path.
Write(p) ==
    /\ pc = "resolve"
    /\ task[p] = "write"
    /\ muHeld' = FALSE
    /\ \/ /\ ~cancelled
          /\ db' = UpdateRow(db, p, mods[p])
          /\ writes' = [writes EXCEPT ![p] = @ + 1]
          /\ task' = [task EXCEPT ![p] = "done"]
          /\ UNCHANGED <<ret, gErr, cancelled>>
       \/ /\ Fail(p, Failure(IF cancelled THEN "ctx" ELSE "db", "exec"))
          /\ UNCHANGED <<db, writes>>
    /\ UNCHANGED <<callVars, proxyVars, rows, toUpdate, lerr, fetched, limit, feed, param, run, pc, runErr, mods,
                   since, seen, latestTimestamp, yielded, iterVars, txVars, histVars>>

\* g.Wait returning without waiting.
AllReturnedEarly == TRUE

\* g.Wait returns once every function passed to g.Go has returned.
AllReturned == \A p \in Paths : task[p] \in {"none", "done", "failed"}

\* `if err := g.Wait(); err != nil { return err }; return nil`.
Wait ==
    /\ pc = "resolve"
    /\ AllReturned
    /\ runErr' = gErr
    /\ pc' = "done"
    /\ UNCHANGED <<restVars, feed, db, param, run, mods, since, seen,
                   latestTimestamp, yielded, iterVars, txVars, histVars>>

\* A run past its ingest phase: any registry, with the rows the ingest phase
\* emptied and the limit of the errgroup.
InitResolve ==
    /\ mods \in Registries
    /\ \E e \in [DOMAIN mods -> BOOLEAN] :
          db = [p \in DOMAIN mods |-> IF e[p] THEN EmptyModule ELSE mods[p]]
    /\ limit \in 1..MaxLimit \cup {WorkerLimit}
    /\ pc = "ingested"
    /\ run = 1
    /\ feed = <<>>
    /\ param = 0
    /\ runErr = Nil
    /\ db0 = db
    /\ since = 0
    /\ seen = {}
    /\ latestTimestamp = 0
    /\ esince = 0
    /\ prevs = {}
    /\ page = <<>>
    /\ idx = 1
    /\ n = 0
    /\ esErr = Nil
    /\ esDone = TRUE
    /\ drainEnd = "empty"
    /\ yielded = <<>>
    /\ prevYielded = {}
    /\ prevLatest = 0
    /\ txDb = db
    /\ txTodo = {}
    /\ rows = [p \in Paths |-> IF p \in DOMAIN db THEN 1 ELSE 0]
    /\ txRows = rows
    /\ NoGroup
    /\ NoCall
    /\ NoProxy

NextResolve ==
    \/ ResolveStart
    \/ \E p \in Paths : Go(p)
    \/ \E p \in Paths : Populate(p)
    \/ \E p \in Paths : Lock(p)
    \/ \E p \in Paths : Write(p)
    \/ Wait

\* The proxy phase of one invocation, from every registry its ingest phase can
\* leave.
SpecResolve == InitResolve /\ [][NextResolve]_vars

\* The proxy phase when the goroutines are scheduled and every request and
\* statement returns: a step that can be taken is taken.
SpecResolveFair == SpecResolve /\ WF_vars(NextResolve)

\* The functions of package versions on every list of up to MaxLen valid
\* versions and every answer of hasGoMod.
InitVersions ==
    /\ op = "none"
    /\ args \in UNION {[1..k -> Versions] : k \in 0..MaxLen}
    /\ answer \in HasAnswers
    /\ result = Resolved(NoVersion, Nil, <<>>)
    /\ feed = <<>>
    /\ db = [p \in {} |-> EmptyModule]
    /\ param = 0
    /\ run = 0
    /\ pc = "idle"
    /\ runErr = Nil
    /\ mods = [p \in {} |-> EmptyModule]
    /\ db0 = db
    /\ since = 0
    /\ seen = {}
    /\ latestTimestamp = 0
    /\ esince = 0
    /\ prevs = {}
    /\ page = <<>>
    /\ idx = 1
    /\ n = 0
    /\ esErr = Nil
    /\ esDone = FALSE
    /\ drainEnd = "none"
    /\ yielded = <<>>
    /\ prevYielded = {}
    /\ prevLatest = 0
    /\ txDb = db
    /\ txTodo = {}
    /\ rows = [p \in Paths |-> 0]
    /\ txRows = rows
    /\ NoGroup
    /\ limit = WorkerLimit
    /\ NoProxy

NextVersions ==
    \/ CallLater
    \/ CallLatestOf
    \/ CallLatest

SpecVersions == InitVersions /\ [][NextVersions]_vars

\* ------------------------------------------------------------------ latestModuleVersion: calls

\* Versions in the list the proxy serves of a path are up to MaxListed.
MaxListed == 2

\* The versions the proxy serves of the path: two compatible releases, and a
\* later release marked +incompatible.
ListedVersions == {Version(1, 0, FALSE), Version(2, 0, FALSE), Version(3, 0, TRUE)}

\* The retract directives of a go.mod file: none, or one range of releases.
RetractSets ==
    {{}} \cup {{[low |-> Version(l, 0, FALSE), high |-> Version(h, 0, FALSE)]} :
                  l \in 1..MaxNum, h \in 1..MaxNum}

\* The .mod files the proxy serves: one that does not parse; of more than one
\* line ("m\nr\n"), with its retract directives; the module line alone, with
\* its newline ("m\n") and without it ("m"); no content at all; or an error.
ModFiles ==
    {ModResponse(Nil, 1, 4, FALSE, {})}
        \cup {ModResponse(Nil, 1, 4, TRUE, r) : r \in RetractSets}
        \cup {ModResponse(Nil, 1, 2, TRUE, {}), ModResponse(Nil, -1, 1, TRUE, {}),
              ModResponse(Nil, -1, 0, TRUE, {})}
        \cup {ModResponse(HTTPError(500, "mod"), -1, 0, FALSE, {})}

\* What the proxy answers the requests of latestModuleVersion for one path.
LatestScripts ==
    [list : {ListResponse(Nil, l) :
                 l \in UNION {[1..k -> ListedVersions] : k \in 0..MaxListed}}
                \cup {ListResponse(HTTPError(500, "list"), <<>>)},
     latest : {LatestResponse(Nil, v) : v \in ListedVersions}
                  \cup {LatestResponse(HTTPError(st, "latest"), NoVersion) : st \in {404, 410}},
     mod : [ListedVersions -> ModFiles]]

\* latestModuleVersion(ctx, modulePath), the proxy answering by the script.
CallLatestModuleVersion ==
    /\ op = "none"
    /\ script # NoScript
    /\ op' = "latestModuleVersion"
    /\ result' = latestModuleVersion(script)
    /\ UNCHANGED <<args, answer, ingestVars, resolveVars, proxyVars>>

\* latestModuleVersion for every script of the proxy.
InitLatest ==
    /\ script \in LatestScripts
    /\ maxQPS = MaxQPS
    /\ burst = MaxBurst
    /\ cacheEnabled = FALSE
    /\ NoFetch
    /\ op = "none"
    /\ args = <<>>
    /\ answer = [err |-> Nil, has |-> FALSE]
    /\ result = Resolved(NoVersion, Nil, <<>>)
    /\ feed = <<>>
    /\ db = [p \in {} |-> EmptyModule]
    /\ param = 0
    /\ run = 0
    /\ pc = "idle"
    /\ runErr = Nil
    /\ mods = [p \in {} |-> EmptyModule]
    /\ db0 = db
    /\ since = 0
    /\ seen = {}
    /\ latestTimestamp = 0
    /\ esince = 0
    /\ prevs = {}
    /\ page = <<>>
    /\ idx = 1
    /\ n = 0
    /\ esErr = Nil
    /\ esDone = FALSE
    /\ drainEnd = "none"
    /\ yielded = <<>>
    /\ prevYielded = {}
    /\ prevLatest = 0
    /\ txDb = db
    /\ txTodo = {}
    /\ rows = [p \in Paths |-> 0]
    /\ txRows = rows
    /\ NoGroup
    /\ limit = WorkerLimit

NextLatest == CallLatestModuleVersion

SpecLatest == InitLatest /\ [][NextLatest]_vars

\* ------------------------------------------------------------------ package proxy: fetch

nonFetchVars == <<script, ingestVars, resolveVars, callVars>>

\* What httputil.DoReadBody returns for a request: a body (status 2xx), an
\* HTTPError (another status), or the error of the transport; the error of
\* the context when it is done.
Replies(done) ==
    {Returned(b, Nil) : b \in Bodies}
        \cup {Returned(0, HTTPError(404, "get")), Returned(0, Failure("net", "get"))}
        \cup (IF done THEN {Returned(0, Failure("ctx", "get"))} ELSE {})

\* proxy.SetMaxQPS(qps), called before the first request (update.go:180).
CallSetMaxQPS(qps) ==
    /\ now = 0
    /\ sent = <<>>
    /\ taken = <<>>
    /\ \A c \in Callers : fpc[c] = "idle"
    /\ qps # maxQPS
    /\ maxQPS' = qps
    /\ tokens' = Full(qps, burst)
    /\ UNCHANGED <<nonFetchVars, now, burst, logVars, cacheVars, callerVars>>

\* Time passes; the limiter gains a token every Interval(maxQPS) ticks, up to
\* its burst.
Tick ==
    /\ now < MaxNow
    /\ now' = now + 1
    /\ tokens' = Min(Full(maxQPS, burst), tokens + 1)
    /\ UNCHANGED <<nonFetchVars, maxQPS, burst, logVars, cacheVars, callerVars>>

\* The context of the callers is cancelled or its deadline passes.
Cancel ==
    /\ ~fctx
    /\ fctx' = TRUE
    /\ UNCHANGED <<nonFetchVars, now, limVars, logVars, cacheVars, fpc, furl, fvia, fres>>

\* Caller c can start a call for URL u: the calls for one URL come from one
\* goroutine at a time (update.go:190-208: one function per module).
Free(c, u) ==
    /\ fpc[c] = "idle"
    /\ Len(sent) + Cardinality({d \in Callers : fpc[d] # "idle"}) < MaxCalls
    /\ \A d \in Callers \ {c} : fpc[d] # "idle" => furl[d] # u

\* fetchCached: cacheEnabled, os.Stat finds the file and it is younger than
\* cacheTTL.
Fresh(u) == cacheEnabled /\ cache[u] # NoFile /\ now - cache[u].mtime < cacheTTL

\* fetchCached returning the body of the file whatever its status.
ReplayBody(f) == Returned(f.body, Nil)

\* What fetchCached returns from the file of a URL.
Replay(f) ==
    IF f.status = 200 THEN Returned(f.body, Nil)
    ELSE Returned(0, HTTPError(f.status, "get"))

\* fetchCached(ctx, u) finding a fresh file: it returns from the file, or the
\* error of os.ReadFile.
CacheHit(c, u) ==
    /\ Free(c, u)
    /\ Fresh(u)
    /\ furl' = [furl EXCEPT ![c] = u]
    /\ \/ fres' = Replay(cache[u])
       \/ fres' = Returned(0, Failure("io", "read"))
    /\ UNCHANGED <<nonFetchVars, now, limVars, logVars, cacheVars, fpc, fvia, fctx>>

\* fetchCached(ctx, u) finding no fresh file: it calls fetch, which takes the
\* limiter under mu and waits.
CacheMiss(c, u) ==
    /\ Free(c, u)
    /\ ~Fresh(u)
    /\ furl' = [furl EXCEPT ![c] = u]
    /\ fvia' = [fvia EXCEPT ![c] = "fetchCached"]
    /\ fpc' = [fpc EXCEPT ![c] = "wait"]
    /\ UNCHANGED <<nonFetchVars, now, limVars, logVars, cacheVars, fctx, fres>>

\* fetch(ctx, u) called by ZipData.
CallFetch(c, u) ==
    /\ Free(c, u)
    /\ furl' = [furl EXCEPT ![c] = u]
    /\ fvia' = [fvia EXCEPT ![c] = "fetch"]
    /\ fpc' = [fpc EXCEPT ![c] = "wait"]
    /\ UNCHANGED <<nonFetchVars, now, limVars, logVars, cacheVars, fctx, fres>>

\* lim.Wait returning nil whatever the tokens.
WaitOkFree(c) ==
    /\ fpc[c] = "wait"
    /\ ~fctx
    /\ taken' = Append(taken, now)
    /\ fpc' = [fpc EXCEPT ![c] = "send"]
    /\ UNCHANGED <<nonFetchVars, now, limVars, ncalls, sent, cacheVars, furl, fvia, fctx, fres>>

\* lim.Wait(ctx) returns nil: there is a token and it is taken.
WaitOk(c) ==
    /\ fpc[c] = "wait"
    /\ ~fctx
    /\ tokens >= Interval(maxQPS)
    /\ tokens' = tokens - Interval(maxQPS)
    /\ taken' = Append(taken, now)
    /\ fpc' = [fpc EXCEPT ![c] = "send"]
    /\ UNCHANGED <<nonFetchVars, now, maxQPS, burst, ncalls, sent, cacheVars, furl, fvia, fctx, fres>>

\* The caller is back from its call.
Back(c) ==
    /\ fpc' = [fpc EXCEPT ![c] = "idle"]
    /\ fvia' = [fvia EXCEPT ![c] = "fetch"]
    /\ UNCHANGED furl

\* fetch going on to its request after lim.Wait returned the error of the
\* context.
WaitCancelledIgnored(c) ==
    /\ fpc[c] = "wait"
    /\ fctx
    /\ fpc' = [fpc EXCEPT ![c] = "send"]
    /\ UNCHANGED <<nonFetchVars, now, limVars, logVars, cacheVars, furl, fvia, fctx, fres>>

\* lim.Wait(ctx) returns the error of the context: fetch returns it, and
\* fetchCached returns it as it is no HTTPError.
WaitCancelled(c) ==
    /\ fpc[c] = "wait"
    /\ fctx
    /\ fres' = Returned(0, Failure("ctx", "wait"))
    /\ Back(c)
    /\ UNCHANGED <<nonFetchVars, now, limVars, logVars, cacheVars, fctx>>

\* fetchCached writing a file for bodies only, none for an HTTPError.
StoredBodies(c, r, wrote) ==
    IF r.err # Nil \/ ~cacheEnabled
    THEN /\ fres' = Returned(r.body, r.err)
         /\ UNCHANGED cache
    ELSE IF wrote
    THEN /\ fres' = Returned(r.body, r.err)
         /\ cache' = [cache EXCEPT ![furl[c]] = File(200, r.body, now)]
    ELSE /\ fres' = Returned(0, Failure("io", "write"))
         /\ UNCHANGED cache

\* fetchCached after fetch returned r, os.WriteFile succeeding or not (wrote).
Stored(c, r, wrote) ==
    IF r.err # Nil /\ ErrorStatus(r.err) = -1
    THEN /\ fres' = Returned(r.body, r.err)
         /\ UNCHANGED cache
    ELSE IF ~cacheEnabled
    THEN /\ fres' = Returned(r.body, r.err)
         /\ UNCHANGED cache
    ELSE IF wrote
    THEN /\ fres' = Returned(r.body, r.err)
         /\ cache' = [cache EXCEPT
                         ![furl[c]] = File(IF r.err = Nil THEN 200 ELSE ErrorStatus(r.err),
                                           r.body, now)]
    ELSE /\ fres' = Returned(0, Failure("io", "write"))
         /\ UNCHANGED cache

\* fetch from http.NewRequestWithContext on: the request is counted and passed
\* to httputil.DoReadBody, which returns r; then the rest of the caller of
\* fetch.
Do(c, r, wrote) ==
    /\ fpc[c] = "send"
    /\ r \in Replies(fctx)
    /\ ncalls' = ncalls + 1
    /\ sent' = Append(sent, [at |-> now, by |-> "fetch"])
    /\ IF fvia[c] = "fetch"
       THEN /\ fres' = Returned(r.body, r.err)
            /\ UNCHANGED cache
       ELSE Stored(c, r, wrote)
    /\ Back(c)
    /\ UNCHANGED <<nonFetchVars, now, limVars, taken, cacheEnabled, fctx>>

\* index.Read, in the phase of a run before the calls of package proxy
\* (update.go:54-57): the request goes to httputil.DoReadBody.
IndexRead ==
    /\ \A c \in Callers : fpc[c] = "idle"
    /\ taken = <<>>
    /\ Len(sent) < MaxCalls
    /\ sent' = Append(sent, [at |-> now, by |-> "index"])
    /\ UNCHANGED <<nonFetchVars, now, limVars, ncalls, taken, cacheVars, callerVars>>

\* The variables of the other parts of the program at rest.
NoProgram ==
    /\ script = NoScript
    /\ NoCall
    /\ feed = <<>>
    /\ db = [p \in {} |-> EmptyModule]
    /\ param = 0
    /\ run = 0
    /\ pc = "idle"
    /\ runErr = Nil
    /\ mods = [p \in {} |-> EmptyModule]
    /\ db0 = db
    /\ since = 0
    /\ seen = {}
    /\ latestTimestamp = 0
    /\ esince = 0
    /\ prevs = {}
    /\ page = <<>>
    /\ idx = 1
    /\ n = 0
    /\ esErr = Nil
    /\ esDone = FALSE
    /\ drainEnd = "none"
    /\ yielded = <<>>
    /\ prevYielded = {}
    /\ prevLatest = 0
    /\ txDb = db
    /\ txTodo = {}
    /\ rows = [p \in Paths |-> 0]
    /\ txRows = rows
    /\ NoGroup
    /\ limit = WorkerLimit

\* Package proxy as built (cacheEnabled is false), with any limiter.
InitFetch ==
    /\ maxQPS \in 1..MaxQPS
    /\ burst \in 1..MaxBurst
    /\ cacheEnabled = FALSE
    /\ NoFetch
    /\ NoProgram

\* The goroutines of a run calling package proxy and index.Read.
NextFetch ==
    \/ \E qps \in 1..MaxQPS : CallSetMaxQPS(qps)
    \/ Tick
    \/ Cancel
    \/ \E c \in Callers, u \in URLs : CacheMiss(c, u)
    \/ \E c \in Callers, u \in URLs : CallFetch(c, u)
    \/ \E c \in Callers : WaitOk(c)
    \/ \E c \in Callers : WaitCancelled(c)
    \/ \E c \in Callers, r \in Replies(TRUE), wrote \in BOOLEAN : Do(c, r, wrote)
    \/ IndexRead

SpecFetch == InitFetch /\ [][NextFetch]_vars

\* Package proxy built with cacheEnabled set, an empty cacheDir and the
\* limiter of MaxQPS.
InitCache ==
    /\ maxQPS = MaxQPS
    /\ burst = MaxBurst
    /\ cacheEnabled = TRUE
    /\ NoFetch
    /\ NoProgram

\* The goroutine that calls fetchCached.
CacheCaller == 1

\* One goroutine calling fetchCached, one call after the other.
NextCache ==
    \/ Tick
    \/ Cancel
    \/ \E u \in URLs : CacheHit(CacheCaller, u)
    \/ \E u \in URLs : CacheMiss(CacheCaller, u)
    \/ WaitOk(CacheCaller)
    \/ WaitCancelled(CacheCaller)
    \/ \E r \in Replies(TRUE), wrote \in BOOLEAN : Do(CacheCaller, r, wrote)

SpecCache == InitCache /\ [][NextCache]_vars

\* ------------------------------------------------------------------ ingest

\* The index and the ingest phase of successive invocations.  The proxy phase
\* that follows an ingest phase reads and writes neither the index nor the
\* params table; what it leaves in the modules table is covered by the rows
\* the first invocation finds, so here an invocation ends with its ingest phase.
InitIngest ==
    /\ feed = <<>>
    /\ db \in IngestRegistries
    /\ param = 0
    /\ run = 0
    /\ pc = "idle"
    /\ runErr = Nil
    /\ mods = [p \in {} |-> EmptyModule]
    /\ db0 = db
    /\ since = 0
    /\ seen = {}
    /\ latestTimestamp = 0
    /\ esince = 0
    /\ prevs = {}
    /\ page = <<>>
    /\ idx = 1
    /\ n = 0
    /\ esErr = Nil
    /\ esDone = FALSE
    /\ drainEnd = "none"
    /\ yielded = <<>>
    /\ prevYielded = {}
    /\ prevLatest = 0
    /\ txDb = db
    /\ txTodo = {}
    /\ rows = [p \in Paths |-> IF p \in DOMAIN db THEN 1 ELSE 0]
    /\ txRows = rows
    /\ NoGroup
    /\ NoCall
    /\ NoProxy
    /\ limit = WorkerLimit

NextIngest ==
    \/ Publish
    \/ RunStart
    \/ RunStartFail
    \/ ReadPage
    \/ ReadFail
    \/ Skip
    \/ Yield
    \/ YieldBreak
    \/ EndPage
    \/ AfterDrain
    \/ TxExec
    \/ TxCommit
    \/ WriteParam

SpecIngest == InitIngest /\ [][NextIngest]_vars

\* ------------------------------------------------------------------ Run

\* Entries of the index when an invocation goes through both phases are up to
\* MaxRunFeed.
MaxRunFeed == 2

\* The index at the start of the invocation: entries in timestamp order, a
\* (path, version) pair once.
RunFeeds ==
    {f \in UNION {[1..k -> {Entry(p, 1, t) : p \in Paths, t \in Timestamps}] : k \in 0..MaxRunFeed} :
        \A i, j \in DOMAIN f : i < j => (f[i].ts <= f[j].ts /\ f[i].path # f[j].path)}

\* updateCmd.Run is called: the index and the modules table are what earlier
\* invocations and publications left.
InitRun ==
    /\ feed \in RunFeeds
    /\ db \in Registries
    /\ param = 0
    /\ run = 0
    /\ pc = "idle"
    /\ runErr = Nil
    /\ mods = [p \in {} |-> EmptyModule]
    /\ db0 = db
    /\ since = 0
    /\ seen = {}
    /\ latestTimestamp = 0
    /\ esince = 0
    /\ prevs = {}
    /\ page = <<>>
    /\ idx = 1
    /\ n = 0
    /\ esErr = Nil
    /\ esDone = FALSE
    /\ drainEnd = "none"
    /\ yielded = <<>>
    /\ prevYielded = {}
    /\ prevLatest = 0
    /\ txDb = db
    /\ txTodo = {}
    /\ rows = [p \in Paths |-> IF p \in DOMAIN db THEN 1 ELSE 0]
    /\ txRows = rows
    /\ NoGroup
    /\ NoCall
    /\ NoProxy
    /\ limit = WorkerLimit

\* updateCmd.Run with c.Module empty, from its call to its return.
NextRun ==
    \/ pc = "idle" /\ RunStart
    \/ pc = "idle" /\ RunStartFail
    \/ ReadPage
    \/ ReadFail
    \/ Skip
    \/ Yield
    \/ YieldBreak
    \/ EndPage
    \/ AfterDrain
    \/ TxExec
    \/ TxCommit
    \/ WriteParam
    \/ ResolveStart
    \/ \E p \in Paths : Go(p)
    \/ \E p \in Paths : Populate(p)
    \/ \E p \in Paths : Lock(p)
    \/ \E p \in Paths : Write(p)
    \/ Wait

\* One invocation of `eco update`, both phases.
SpecRun == InitRun /\ [][NextRun]_vars

\* ------------------------------------------------------------------ the cursor

\* C1: within one drain of Entries no (path, version, timestamp) entry is
\* passed to yield twice.
C1_NoRepeatedYield ==
    \A i, j \in DOMAIN yielded : i # j => yielded[i] # yielded[j]

\* Entries on both sides of the first page boundary share a timestamp.
C1_Witness ==
    /\ Len(yielded) > PageSize
    /\ yielded[PageSize].ts = yielded[PageSize + 1].ts

\* C2: a drain started from the last timestamp the previous drain observed
\* yields no entry the previous drain yielded.
C2_NoRepeatAcrossDrains ==
    (run >= 2 /\ pc # "done" /\ prevLatest # 0 /\ since = prevLatest)
        => Range(yielded) \cap prevYielded = {}

\* C3: a drain that ends on a page with no new entry has yielded every entry
\* of the index at or after the watermark it started from.
C3_Exhausted ==
    (pc = "errf" /\ drainEnd = "empty")
        => \A i \in DOMAIN feed : feed[i].ts >= since => feed[i] \in Range(yielded)

\* C4: after the drain the accessor returns an error exactly when a Read
\* failed, and then that Read's error; no entry is yielded after a failed
\* Read; a drain ended by an empty page or by the consumer returns nil.
C4_ErrorAccessor ==
    /\ [](pc = "errf" => ((esErr # Nil) <=> (drainEnd = "error")))
    /\ [](drainEnd \in {"empty", "stopped"} => esErr = Nil)
    /\ [][\A err \in ReadErrors : ReadFailWith(err) => esErr' = err]_vars
    /\ [][(drainEnd = "error" /\ run' = run) => yielded' = yielded]_vars

\* A Read fails after entries were yielded.
C4_Witness == pc = "errf" /\ drainEnd = "error" /\ Len(yielded) > 0

\* ------------------------------------------------------------------ the ingest phase

\* The modules table after an ingest that saw the paths s, from the table d.
Ingested(d, s) == [p \in DOMAIN d \cup s |-> IF p \in s THEN EmptyModule ELSE d[p]]

IngestFailures == {"index", "begin", "update", "insert", "commit", "updating indexSince"}

\* C5: after a failed ingest the new rows and the new watermark are both
\* visible or both not.
C5_AtomicIngest ==
    (pc = "done" /\ runErr.ep \in IngestFailures)
        => ((db = db0) <=> (param = since))

\* C6 as claimed: ingestion leaves every row that was in the registry as it was.
C6_ExistingUntouched ==
    pc \in {"param", "ingested"} => \A p \in DOMAIN db0 : db[p] = db0[p]

\* C6 amended: ingestion writes the rows of the observed paths only; it inserts
\* an empty row for an observed path that was absent and empties the row of an
\* observed path that was present; every other row stays as it was.
C6_IngestWrites ==
    /\ pc \in {"idle", "read", "iter", "errf", "tx"} => db = db0
    /\ pc \in {"param", "ingested"} => db = Ingested(db0, seen)
    /\ pc = "done" => db \in {db0, Ingested(db0, seen)}

\* One present row was observed and emptied, another was not observed.
C6_Witness ==
    /\ pc = "param"
    /\ \E p \in seen \cap DOMAIN db0 : db0[p] # EmptyModule /\ db[p] = EmptyModule
    /\ \E q \in DOMAIN db0 \ seen : db[q] = db0[q] /\ db0[q] # EmptyModule

\* The entries the loop body of updateFromIndex kept.
Consumed ==
    IF drainEnd = "stopped" THEN SubSeq(yielded, 1, Len(yielded) - 1) ELSE yielded

MaxTimestamp(es) == CHOOSE t \in {es[i].ts : i \in DOMAIN es} : \A i \in DOMAIN es : es[i].ts <= t

\* C7: after an ingest phase that returned nil the stored watermark is the
\* greatest timestamp of the entries consumed, and is the one loaded when none
\* was consumed.
C7_Watermark ==
    pc = "ingested"
        => param = IF Len(Consumed) = 0 THEN since ELSE MaxTimestamp(Consumed)

\* The deadline stopped the drain on an entry later than the watermark written.
C7_Witness ==
    /\ pc = "ingested"
    /\ drainEnd = "stopped"
    /\ Len(Consumed) > 0
    /\ param > since
    /\ yielded[Len(yielded)].ts > param

\* ------------------------------------------------------------------ the resolve phase

\* C8: when updateModuleFromProxy returns nil, ModuleUpdateStmt was executed
\* exactly once for each record of toUpdate and for no other path, whatever the
\* limit of the errgroup and the interleaving of its functions.
C8_OneUpdatePerRecord ==
    (pc = "done" /\ runErr = Nil)
        => \A p \in Paths : writes[p] = IF p \in toUpdate THEN 1 ELSE 0

C8_Witness ==
    /\ pc = "done"
    /\ runErr = Nil
    /\ limit = 1
    /\ Cardinality(toUpdate) >= 2
    /\ \A p \in toUpdate : writes[p] = 1

\* C9: when latestModuleVersion fails with errNoVersions or with status 404
\* or 410, the record gets the text of the error and keeps latest_version and
\* info_time empty, the .info file is not requested, and the function goes on
\* to the UPDATE: it returns nil with the row equal to the record, unless the
\* UPDATE itself fails.
C9_SoftFailureRecorded ==
    \A p \in Paths :
        (lerr[p] = errNoVersions \/ ErrorStatus(lerr[p]) \in {404, 410})
            => /\ mods[p].error = ErrorText(lerr[p])
               /\ mods[p].latest_version = NoVersion
               /\ mods[p].info_time = 0
               /\ "info" \notin fetched[p]
               /\ task[p] \in {"lock", "write", "done", "failed"}
               /\ task[p] = "done" => (ret[p] = Nil /\ writes[p] = 1 /\ db[p] = mods[p])
               /\ task[p] = "failed" => ret[p].ep = "exec"

C9_Witness ==
    \E p, q \in Paths :
        /\ task[p] = "done" /\ lerr[p] = errNoVersions /\ db[p].error = ErrorText(errNoVersions)
        /\ task[q] = "done" /\ ErrorStatus(lerr[q]) = 410 /\ db[q].error = ErrorText(lerr[q])

\* C10: no function of the errgroup returns an error of status 404 or 410,
\* whichever request of the resolve phase it is the response to; so such a
\* response never cancels the group.
C10_NotFoundNeverAborts ==
    /\ \A p \in Paths : ErrorStatus(ret[p]) \notin {404, 410}
    /\ ErrorStatus(gErr) \notin {404, 410}

\* C11: a function of the errgroup that returns an error cancels gctx; from
\* then on every request and every UPDATE of another function fails with the
\* context's error and writes nothing; every function returns, and
\* updateModuleFromProxy returns the first error, which is not a cancellation.
C11_HardFailureCancels ==
    /\ [](cancelled <=> gErr # Nil)
    /\ [](gErr # Nil => gErr.kind # "ctx" /\ \E p \in Paths : ret[p] = gErr)
    /\ [][\A p \in Paths :
            (cancelled /\ task[p] \in {"populate", "write"} /\ task'[p] # task[p])
                => /\ task'[p] = "failed"
                   /\ ret'[p].kind = "ctx"
                   /\ db' = db
                   /\ writes' = writes]_vars
    /\ [][gErr # Nil => gErr' = gErr]_vars
    /\ []((pc = "done" /\ gErr # Nil) => (AllReturned /\ runErr = gErr))
    /\ (cancelled ~> (pc = "done" /\ AllReturned))

\* With limit 1 the second function starts after the first returned its error.
C11_Witness ==
    /\ pc = "done"
    /\ limit = 1
    /\ \E p, q \in Paths :
          /\ ret[p].kind = "http" /\ runErr = ret[p]
          /\ ret[q].kind = "ctx" /\ writes[q] = 0 /\ db[q] = db0[q]

\* C12: a row written by a function of the errgroup has latest_version and
\* info_time both empty or both non-empty.
C12_VersionWithInfoTime ==
    \A p \in Paths :
        writes[p] > 0 => ((db[p].latest_version = NoVersion) <=> (db[p].info_time = 0))

C12_Witness ==
    \E p, q \in Paths :
        /\ writes[p] = 1 /\ db[p].latest_version # NoVersion /\ db[p].info_time # 0
        /\ writes[q] = 1 /\ db[q].latest_version = NoVersion /\ db[q].info_time = 0

\* C13: when updateModuleFromProxy returns nil, every record it selected has a
\* latest_version or an error, in memory and in its row.
C13_VersionOrError ==
    (pc = "done" /\ runErr = Nil)
        => \A p \in toUpdate :
              /\ mods[p].latest_version # NoVersion \/ mods[p].error # <<>>
              /\ db[p].latest_version # NoVersion \/ db[p].error # <<>>

\* ------------------------------------------------------------------ the registry

\* C14: the modules table never holds two rows with one path, inside a
\* transaction or committed, although every INSERT the program executes adds a
\* row; the paths with a row are those of the table.
C14_OneRowPerPath ==
    \A p \in Paths :
        /\ rows[p] <= 1
        /\ txRows[p] <= 1
        /\ rows[p] = 1 <=> p \in DOMAIN db

\* The second invocation observes again a path the first one inserted.
C14_Witness ==
    /\ run = 2
    /\ pc = "param"
    /\ \E p \in seen \cap DOMAIN db0 : \E e \in prevYielded : e.path = p

\* ------------------------------------------------------------------ package versions

\* C15: for releases a and b, Later(a, b) is true exactly when
\* semver.Compare(a, b) > 0.
C15_LaterOfReleases ==
    (op = "Later" /\ IsRelease(args[1]) /\ IsRelease(args[2]))
        => (result.later <=> Compare(args[1], args[2]) > 0)

\* Two releases that differ in build metadata only: neither is later.
C15_Witness ==
    /\ op = "Later"
    /\ IsRelease(args[1]) /\ IsRelease(args[2])
    /\ args[1] # args[2] /\ Compare(args[1], args[2]) = 0
    /\ ~result.later

\* The tier of a version: release 3, tagged prerelease 2, pseudo-version 1.
Tier(v) == IF IsRelease(v) THEN 3 ELSE IF IsPseudoVersion(v) THEN 1 ELSE 2

\* C16: Later of versions of different tiers is true when the first is of
\* the higher tier and false when it is of the lower, whatever semver says.
C16_LaterByTier ==
    (op = "Later" /\ Tier(args[1]) # Tier(args[2]))
        => (result.later <=> Tier(args[1]) > Tier(args[2]))

\* A tagged prerelease is later than a pseudo-version above it in semver.
C16_Witness ==
    /\ op = "Later"
    /\ Tier(args[1]) = 2 /\ Tier(args[2]) = 1
    /\ Compare(args[1], args[2]) < 0
    /\ result.later

\* The lists with the elements of s in every order.
Perms(s) == {[i \in DOMAIN s |-> s[f[i]]] : f \in Permutations(DOMAIN s)}

\* C17: LatestOf returns the same version for every permutation of the list.
C17_LatestOfAnyOrder ==
    op = "LatestOf" => \A q \in Perms(args) : LatestOf(q) = result.v

\* C18: LatestOf and Latest return the empty string for the empty list,
\* Latest with a nil error and no call of hasGoMod; and Latest returns the
\* empty string with a nil error for the empty list only.
C18_EmptyForEmpty ==
    /\ (op = "LatestOf" /\ args = <<>>) => result.v = NoVersion
    /\ (op = "Latest" /\ args = <<>>) => result = Resolved(NoVersion, Nil, <<>>)
    /\ (op = "Latest" /\ result.v = NoVersion /\ result.err = Nil) => args = <<>>

\* Latest of the empty list with a hasGoMod that would fail.
C18_Witness ==
    /\ op = "Latest"
    /\ args = <<>>
    /\ answer.err # Nil
    /\ result = Resolved(NoVersion, Nil, <<>>)

\* The versions of the list that are neither incompatible nor pseudo-versions.
Compats(versions) ==
    SelectSeq(versions, LAMBDA v : ~IsIncompatible(v) /\ ~IsPseudoVersion(v))

\* C19: when the latest of the list is incompatible and the list has a
\* compatible tagged version, Latest calls hasGoMod once, on the latest of
\* those, and returns it when the answer is true, the incompatible latest when
\* the answer is false, and the error of hasGoMod when there is one.
C19_IncompatibleLatest ==
    (op = "Latest" /\ IsIncompatible(LatestOf(args)) /\ Compats(args) # <<>>)
        => /\ result.asked = <<LatestOf(Compats(args))>>
           /\ (answer.err = Nil /\ answer.has)
                 => (result.v = LatestOf(Compats(args)) /\ result.err = Nil)
           /\ (answer.err = Nil /\ ~answer.has)
                 => (result.v = LatestOf(args) /\ result.err = Nil)
           /\ answer.err # Nil => (result.v = NoVersion /\ result.err = answer.err)

C19_Witness ==
    /\ op = "Latest"
    /\ IsIncompatible(LatestOf(args))
    /\ Len(Compats(args)) >= 2
    /\ answer.err = Nil /\ answer.has
    /\ result.v = LatestOf(Compats(args))
    /\ result.v # LatestOf(args)

\* C20: when the latest of the list is not incompatible, or it is and every
\* version of the list is incompatible or a pseudo-version, Latest returns
\* LatestOf of the list with a nil error and does not call hasGoMod.
C20_NoCallOfHasGoMod ==
    (op = "Latest"
        /\ \/ ~IsIncompatible(LatestOf(args))
           \/ \A i \in DOMAIN args : IsIncompatible(args[i]) \/ IsPseudoVersion(args[i]))
        => result = Resolved(LatestOf(args), Nil, <<>>)

\* An incompatible latest among pseudo-versions, with a hasGoMod that would fail.
C20_Witness ==
    /\ op = "Latest"
    /\ IsIncompatible(LatestOf(args))
    /\ \E i \in DOMAIN args : IsPseudoVersion(args[i]) /\ ~IsIncompatible(args[i])
    /\ answer.err # Nil
    /\ result = Resolved(LatestOf(args), Nil, <<>>)

\* ------------------------------------------------------------------ C21

\* allVersions of latestModuleVersion: the list, and the version of @latest
\* appended when that request succeeded.
Listed(s) ==
    IF s.latest.err = Nil THEN Append(s.list.versions, s.latest.v) ELSE s.list.versions

\* C21: when a call of hasGoMod returns an error, versions.Latest returns the
\* empty version with that error, and latestModuleVersion returns the empty
\* version with that error (wrapped: the model's errors carry no message).
C21_HasGoModErrorReturned ==
    op = "latestModuleVersion" =>
        /\ \A i \in DOMAIN result.asked :
              script.mod[result.asked[i]].err # Nil =>
                  result.v = NoVersion /\ result.err = script.mod[result.asked[i]].err
        /\ LET r == Latest(Listed(script), hasGoMod(script.mod))
           IN  \A i \in DOMAIN r.asked :
                  hasGoMod(script.mod)[r.asked[i]].err # Nil =>
                      r.v = NoVersion /\ r.err = hasGoMod(script.mod)[r.asked[i]].err

\* latestModuleVersion returned after hasGoMod failed on the latest compatible
\* version, the list and @latest requests having succeeded.
C21_Witness ==
    /\ op = "latestModuleVersion"
    /\ script.list.err = Nil
    /\ script.latest.err = Nil
    /\ result.asked = <<Version(1, 0, FALSE)>>
    /\ script.mod[Version(1, 0, FALSE)].err # Nil
    /\ result.err = HTTPError(500, "mod")

\* ------------------------------------------------------------------ C22

\* v is covered by a retraction range [low, high], ends included, in semver order.
Covered(retract, v) ==
    \E r \in retract : Compare(r.low, v) \in {-1, 0} /\ Compare(v, r.high) \in {-1, 0}

\* The raw latest version resolved without error, and its .mod file was
\* served, parses and retracts a listed version.
RetractsListed(s) ==
    /\ s.list.err = Nil
    /\ s.latest.err = Nil \/ ErrorStatus(s.latest.err) = 404
    /\ Listed(s) # <<>>
    /\ LET raw == Latest(Listed(s), hasGoMod(s.mod))
       IN  /\ raw.err = Nil
           /\ s.mod[raw.v].err = Nil
           /\ s.mod[raw.v].parses
           /\ \E i \in DOMAIN Listed(s) : Covered(s.mod[raw.v].retract, Listed(s)[i])

\* The listed versions not covered by a retraction range of the raw latest's
\* .mod file.
Kept(s) ==
    SelectSeq(Listed(s),
              LAMBDA v : ~Covered(s.mod[Latest(Listed(s), hasGoMod(s.mod)).v].retract, v))

\* C22: when the .mod file at the raw latest version parses and retracts a
\* listed version, latestModuleVersion returns what Latest returns for the
\* versions no retraction range covers: never a retracted version, and the
\* empty version with a nil error when every version is retracted.
C22_LatestOfUnretracted ==
    (op = "latestModuleVersion" /\ RetractsListed(script)) =>
        /\ result.v = Latest(Kept(script), hasGoMod(script.mod)).v
        /\ result.err = Latest(Kept(script), hasGoMod(script.mod)).err
        /\ result.v # NoVersion =>
              ~Covered(script.mod[Latest(Listed(script), hasGoMod(script.mod)).v].retract,
                       result.v)
        /\ Kept(script) = <<>> => result.v = NoVersion /\ result.err = Nil

\* The raw latest v2.0.0 retracts itself and v1.0.0 is returned.
C22_Witness ==
    /\ op = "latestModuleVersion"
    /\ RetractsListed(script)
    /\ Latest(Listed(script), hasGoMod(script.mod)).v = Version(2, 0, FALSE)
    /\ result.v = Version(1, 0, FALSE)
    /\ result.err = Nil

\* ------------------------------------------------------------------ C23

\* The raw latest version resolved without error and its .mod file was served.
RawServed(s) ==
    /\ s.list.err = Nil
    /\ s.latest.err = Nil \/ ErrorStatus(s.latest.err) = 404
    /\ Listed(s) # <<>>
    /\ Latest(Listed(s), hasGoMod(s.mod)).err = Nil
    /\ s.mod[Latest(Listed(s), hasGoMod(s.mod)).v].err = Nil

\* The requests of a call that stops after the .mod file of the raw latest.
OnePass(raw) ==
    <<<<"list", NoVersion>>, <<"latest", NoVersion>>>> \o ModCalls(raw.asked)
        \o <<<<"mod", raw.v>>>>

\* C23: when the .mod file at the raw latest version does not parse, or parses
\* and no listed version is covered by a retraction range, latestModuleVersion
\* returns the raw latest version with a nil error, and versions.Latest is not
\* called a second time (no further call of hasGoMod, no further request).
C23_RawLatestKept ==
    (op = "latestModuleVersion" /\ RawServed(script)) =>
        LET raw == Latest(Listed(script), hasGoMod(script.mod))
        IN  (\/ ~script.mod[raw.v].parses
             \/ \A i \in DOMAIN Listed(script) :
                   ~Covered(script.mod[raw.v].retract, Listed(script)[i]))
                => /\ result.v = raw.v
                   /\ result.err = Nil
                   /\ result.asked = raw.asked
                   /\ result.calls = OnePass(raw)

\* An incompatible latest set aside for v1.0.0, whose .mod file has more than
\* the module line, parses and retracts nothing.
C23_Witness ==
    /\ op = "latestModuleVersion"
    /\ RawServed(script)
    /\ script.mod[Version(1, 0, FALSE)].parses
    /\ script.mod[Version(1, 0, FALSE)].retract = {}
    /\ result.asked = <<Version(1, 0, FALSE)>>
    /\ result.v = Version(1, 0, FALSE)
    /\ Len(result.calls) = 4

\* ------------------------------------------------------------------ C24

\* The lines of a .mod file's content, up to "more than one": none in no
\* content, one when there is no newline or the only newline ends the content.
Lines(m) ==
    IF m.len = 0 THEN 0
    ELSE IF m.first = -1 \/ m.first = m.len - 1 THEN 1
    ELSE 2

\* C24: hasGoMod reports false for content of exactly one line, with or
\* without a newline at its end, and true only for content of more than one line.
C24_OneLineHasNoGoMod ==
    op = "latestModuleVersion" =>
        \A i \in DOMAIN result.asked :
            script.mod[result.asked[i]].err = Nil =>
                (hasGoMod(script.mod)[result.asked[i]].has
                    <=> Lines(script.mod[result.asked[i]]) > 1)

\* ------------------------------------------------------------------ C25

\* The callers of fetch that hold a token and have not passed their request on.
Holding == {c \in Callers : fpc[c] = "send"}

\* A call of fetch ends in lim.Wait: the caller was waiting and is back.
WaitEnds(c) == fpc[c] = "wait" /\ fpc'[c] = "idle"

\* C25: fetch takes one token of the shared limiter before it passes its
\* request on (every counted request has its own token), and when the context
\* ends its wait fetch returns the error of the context, no request is passed
\* on, and neither the call counter nor the limiter changes.
C25_TokenBeforeRequest ==
    /\ [](ncalls + Cardinality(Holding) = Len(taken))
    /\ [][\A c \in Callers :
            WaitEnds(c) =>
                /\ fctx
                /\ fres' = Returned(0, Failure("ctx", "wait"))
                /\ sent' = sent
                /\ ncalls' = ncalls
                /\ taken' = taken
                /\ tokens' = tokens]_vars

\* After one request went through, a call of fetch was ended in its wait by
\* the context: the counter still counts one request.
C25_Witness ==
    /\ fctx
    /\ fres = Returned(0, Failure("ctx", "wait"))
    /\ ncalls = 1
    /\ sent # <<>>
    /\ \A c \in Callers : fpc[c] = "idle"

\* ------------------------------------------------------------------ C26

\* The times the requests of fetch were passed to httputil.DoReadBody, in order.
FetchTimes ==
    LET f == SelectSeq(sent, LAMBDA q : q.by = "fetch")
    IN  [i \in DOMAIN f |-> f[i].at]

\* Of the events at times ts, those in an interval are at most burst plus rate
\* times the length of the interval, the rate being one event per `every`
\* ticks; so 2 * burst of them span at least burst * every ticks.
Paced(ts, every) ==
    \A i \in DOMAIN ts : \A j \in i..Len(ts) :
        (j - i + 1 - burst) * every <= ts[j] - ts[i]

\* C26 as stated: with the limiter configured for maxQPS requests a second
\* and burst b, the requests issued through fetch in an interval are at most
\* b plus maxQPS times its length in seconds, so any 2 * b of them span at
\* least b / maxQPS seconds.  (Times are in ticks: both sides times maxQPS.)
C26_RequestsPaced ==
    \A i \in DOMAIN FetchTimes : \A j \in i..Len(FetchTimes) :
        (j - i + 1 - burst) * Second <= (FetchTimes[j] - FetchTimes[i]) * maxQPS

\* C26 amended: the tokens taken by the calls of fetch are paced at one per
\* Interval(maxQPS) ticks with burst b, and each request of fetch is passed on
\* no earlier than a token of its own was taken.
C26_TokensPaced ==
    /\ Paced(taken, Interval(maxQPS))
    /\ \A k \in DOMAIN FetchTimes : k <= Len(taken) /\ taken[k] <= FetchTimes[k]

\* With burst 2, four tokens were taken as fast as the limiter gives them.
C26_Witness ==
    /\ burst = 2
    /\ Len(taken) = 4
    /\ taken[4] - taken[1] = 2 * Interval(maxQPS)
    /\ Len(FetchTimes) = 4

\* ------------------------------------------------------------------ C27

\* C27: every request passed to the upstream, the feed pages of index.Read
\* included, is counted in ncalls and has taken a token of the limiter first.
C27_EveryRequestLimited ==
    /\ Len(sent) = ncalls
    /\ Len(sent) + Cardinality(Holding) = Len(taken)

\* ------------------------------------------------------------------ C28

\* Caching is enabled and there is an entry of URL u younger than the TTL.
Young(u) == cacheEnabled /\ cache[u] # NoFile /\ now - cache[u].mtime < cacheTTL

\* A call of fetchCached by caller c goes to fetch; it returns without.
GoesToFetch(c) == fpc[c] = "idle" /\ fpc'[c] = "wait"
ReturnsAtOnce(c) == fpc[c] = "idle" /\ fpc'[c] = "idle" /\ <<fres, furl>>' # <<fres, furl>>

\* C28: with caching enabled and an entry of the URL younger than the TTL,
\* fetchCached sends no request and takes no token, and (unless reading the
\* file fails) it returns the stored body when the stored status is 200 and
\* else an HTTPError of the stored status.
C28_FreshEntryReplayed ==
    [][\A c \in {CacheCaller} :
          /\ GoesToFetch(c) => ~Young(furl'[c])
          /\ ReturnsAtOnce(c) =>
                /\ Young(furl'[c])
                /\ sent' = sent /\ ncalls' = ncalls
                /\ taken' = taken /\ tokens' = tokens
                /\ cache' = cache
                /\ fres'.err # Failure("io", "read") =>
                      IF cache[furl'[c]].status = 200
                      THEN fres' = Returned(cache[furl'[c]].body, Nil)
                      ELSE /\ ErrorStatus(fres'.err) = cache[furl'[c]].status
                           /\ fres'.body = 0]_vars

\* The status 404 of a URL was stored, then the body of another URL, and the
\* last call, for the first URL, returned the stored status: two requests in
\* all, and the entry is as it was stored.
C28_Witness ==
    /\ \E u, w \in URLs :
          /\ Young(u) /\ cache[u].status = 404
          /\ cache[w].status = 200 /\ cache[u].mtime < cache[w].mtime
          /\ furl[CacheCaller] = u
    /\ fres = Returned(0, HTTPError(404, "get"))
    /\ fpc[CacheCaller] = "idle"
    /\ Len(sent) = 2

\* ------------------------------------------------------------------ C29

\* The request of caller c is passed to the transport and its call returns.
Fetches(c) == fpc[c] = "send" /\ fpc'[c] = "idle"

\* C29: with caching enabled, no request for a URL reaches the transport while
\* an outcome recorded for it is younger than the TTL, so one recorded request
\* serves all calls within the TTL; a body and a non-2xx status are both
\* recorded (when the file can be written), an error of the transport records
\* nothing, and a call with no young entry goes to fetch.
C29_OneRequestPerTTL ==
    [][\A c \in {CacheCaller} :
          /\ Fetches(c) =>
                /\ ~Young(furl[c])
                /\ (fres'.err = Nil \/ ErrorStatus(fres'.err) # -1) =>
                      cache' = [cache EXCEPT
                                   ![furl[c]] = [status |-> IF fres'.err = Nil THEN 200
                                                            ELSE ErrorStatus(fres'.err),
                                                 body |-> fres'.body,
                                                 mtime |-> now]]
                /\ (fres'.err # Nil /\ ErrorStatus(fres'.err) = -1) => cache' = cache
          /\ ReturnsAtOnce(c) => Young(furl'[c])]_vars

\* Two requests were sent and one outcome is recorded: a body, after the clock
\* started, which the last call returned; the other request recorded nothing.
C29_Witness ==
    /\ \E u \in URLs :
          /\ Young(u) /\ cache[u].status = 200 /\ cache[u].mtime > 0
          /\ furl[CacheCaller] = u
          /\ fres = Returned(cache[u].body, Nil)
          /\ \A w \in URLs \ {u} : cache[w] = NoFile
    /\ fpc[CacheCaller] = "idle"
    /\ Len(sent) = 2

\* ------------------------------------------------------------------ C30

\* C30: the resolve phase takes exactly the records of the in-memory map with
\* an empty error and an empty latest_version or info_time: it runs its
\* function to the end for each of them, and for every other path nothing is
\* requested of the proxy and nothing is written.
C30_ExactlyTheUnresolved ==
    /\ [][(pc = "ingested" /\ pc' = "resolve") =>
             toUpdate' = {p \in DOMAIN mods :
                             /\ mods[p].error = <<>>
                             /\ mods[p].latest_version = NoVersion \/ mods[p].info_time = 0}]_vars
    /\ [](pc \in {"resolve", "done"} =>
             \A p \in Paths \ toUpdate :
                 /\ task[p] = "none"
                 /\ fetched[p] = {}
                 /\ writes[p] = 0
                 /\ p \in DOMAIN db => db[p] = db0[p])
    /\ [](pc = "done" => \A p \in toUpdate : task[p] \in {"done", "failed"})

\* The phase is over without error for a map of a record with a version and no
\* info_time, which was written, and a resolved record, which was left alone.
C30_Witness ==
    /\ pc = "done"
    /\ runErr = Nil
    /\ \E p \in toUpdate : writes[p] = 1 /\ fetched[p] = {"info"}
    /\ \E p \in DOMAIN mods \ toUpdate :
          mods[p] = Module(<<>>, SomeVersion, 1) /\ db[p] = db0[p]

\* ------------------------------------------------------------------ C31

\* C31: at every moment of updateModuleFromProxy the functions passed to g.Go
\* that have started and not returned are at most the limit of the errgroup,
\* which is at most 10, however many records toUpdate holds.
C31_AtMostLimitActive ==
    /\ limit <= WorkerLimit
    /\ Cardinality(Active) <= limit

\* More records than the limit: one function runs and g.Go blocks on the next.
C31_Witness ==
    /\ pc = "resolve"
    /\ Cardinality(toUpdate) > limit
    /\ Cardinality(Active) = limit
    /\ \E p \in toUpdate : task[p] = "pending"

\* ------------------------------------------------------------------ C32

\* The functions between mu.Lock() and mu.Unlock().
Writing == {p \in Paths : task[p] = "write"}

\* C32: at most one function of the errgroup is between mu.Lock() and
\* mu.Unlock(), where the UPDATE is executed; mu is locked exactly while one
\* is; the step that ends the UPDATE, with or without an error, unlocks mu; and
\* a function waiting in mu.Lock() gets the lock.
C32_WriteLock ==
    /\ [](Cardinality(Writing) <= 1)
    /\ [](muHeld <=> Writing # {})
    /\ [][\A p \in Paths :
            (task[p] = "write" /\ task'[p] \in {"done", "failed"}) => ~muHeld']_vars
    /\ \A p \in Paths : (task[p] = "lock" ~> task[p] = "write")

\* An UPDATE failed, and a function that waited for mu holds it afterwards.
C32_Witness ==
    \E p, q \in Paths :
        /\ task[p] = "failed"
        /\ ret[p] = Failure("db", "exec")
        /\ task[q] = "write"
        /\ muHeld

\* ------------------------------------------------------------------ C33

\* Where Run is: before updateFromIndex, in it, between the two phases, in
\* updateModuleFromProxy, returned.
Phase(at) ==
    CASE at = "idle" -> 0
      [] at \in {"read", "iter", "errf", "tx", "param"} -> 1
      [] at = "ingested" -> 2
      [] at = "resolve" -> 3
      [] at = "done" -> 4

\* The failures of allModules and of updateFromIndex.
RunFailures == IngestFailures \cup {"allModules", "indexSince"}

\* C33: Run goes through updateFromIndex, then updateModuleFromProxy, then
\* returns, never backwards; updateModuleFromProxy starts only when
\* updateFromIndex has returned nil; a failure of allModules, of the query of
\* indexSince, of the drain, of the transaction or of the upsert makes Run
\* return that error at once, with no function of the errgroup started, no
\* proxy request and no UPDATE of the resolve phase.
C33_IngestThenResolve ==
    /\ [][Phase(pc') >= Phase(pc)]_vars
    /\ [][(pc # "resolve" /\ pc' = "resolve") => (pc = "ingested" /\ runErr = Nil)]_vars
    /\ [][(Phase(pc) < 3 /\ runErr' # runErr) => (pc' = "done" /\ runErr'.ep \in RunFailures)]_vars
    /\ [][(Phase(pc) < 3 /\ pc' = "done") => runErr' # Nil]_vars
    /\ []((pc = "done" /\ drainEnd = "error") => runErr = esErr)
    /\ [](Phase(pc) < 3 => NoGroup)
    /\ []((pc = "done" /\ runErr.ep \in RunFailures) => NoGroup)

\* The upsert of indexSince failed after the transaction committed a record
\* the resolve phase would have selected.
C33_Witness ==
    /\ pc = "done"
    /\ runErr = Failure("db", "updating indexSince")
    /\ \E p \in DOMAIN mods : NeedsProxy(mods[p]) /\ db[p] = EmptyModule
    /\ NoGroup

\* ------------------------------------------------------------------ C34

\* C34: when the drain ended because a Read failed, updateFromIndex returns
\* that error in its next step, and the modules table, its row counts, the
\* in-memory map and indexSince are what they were when the run started,
\* whatever was consumed before the failure.
C34_FailedDrainWritesNothing ==
    /\ [][(pc = "errf" /\ drainEnd = "error")
             => /\ pc' = "done"
                /\ runErr' = esErr
                /\ runErr' \in ReadErrors
                /\ <<db, rows, param, mods>>' = <<db, rows, param, mods>>]_vars
    /\ []((pc = "done" /\ runErr \in ReadErrors)
             => /\ db = db0
                /\ param = since
                /\ mods = db0
                /\ \A p \in Paths : rows[p] = IF p \in DOMAIN db0 THEN 1 ELSE 0)

\* The Read of a later page failed: a new path and a path of the table were
\* consumed, with a timestamp later than the watermark.
C34_Witness ==
    /\ pc = "done"
    /\ runErr \in ReadErrors
    /\ seen \ DOMAIN db # {}
    /\ seen \cap DOMAIN db # {}
    /\ latestTimestamp > param

\* ------------------------------------------------------------------ C35

\* C35: once the transaction of updateFromIndex has committed, every row of
\* the modules table has a record in the in-memory map with the same error,
\* latest_version and info_time, also for the paths that were in the table and
\* came again from the index.
C35_MapEqualsTable ==
    pc \in {"param", "ingested"}
        => \A p \in DOMAIN db : p \in DOMAIN mods /\ mods[p] = db[p]

\* ------------------------------------------------------------------ C36

\* C36: whatever invocations ran before and however their drains ended, every
\* entry of the index with a timestamp earlier than the stored indexSince has
\* a row of its path in the modules table.
C36_NothingBehindWatermark ==
    \A i \in DOMAIN feed : feed[i].ts < param => feed[i].path \in DOMAIN db

\* The second of two ingest phases that returned nil moved the watermark on,
\* the first was stopped by the deadline, and an entry behind the watermark has
\* the empty row an ingest phase wrote.
C36_Witness ==
    /\ run = 2
    /\ pc = "ingested"
    /\ 0 < since
    /\ since < param
    /\ \E e \in prevYielded : e.ts > since
    /\ \E i \in DOMAIN feed : feed[i].ts < param /\ db[feed[i].path] = EmptyModule

\* ------------------------------------------------------------------ C37

\* C37: no step lowers the stored indexSince, and the value an ingest phase
\* leaves is at least the value it loaded.
C37_WatermarkMonotone ==
    /\ [][param' >= param]_vars
    /\ [](pc \in {"param", "ingested"} => latestTimestamp \in {0} \cup {t \in Timestamps : t >= since})
    /\ [](pc = "ingested" => param >= since)

\* A phase that loaded a watermark consumed entries and wrote the same value:
\* the entries it read again at the watermark's timestamp.
C37_Witness ==
    /\ run = 2
    /\ pc = "ingested"
    /\ since > 0
    /\ latestTimestamp = since
    /\ param = since

\* ------------------------------------------------------------------ C38

\* C38: a row written by a function of the errgroup does not have both an
\* error and a latest_version.
C38_ErrorOrVersion ==
    \A p \in Paths :
        writes[p] > 0 => (db[p].error = <<>> \/ db[p].latest_version = NoVersion)

\* One function wrote an error for a record without a version, another wrote
\* the info_time of a record that had its version already.
C38_Witness ==
    \E p, q \in Paths :
        /\ writes[p] = 1 /\ db[p].error # <<>> /\ db[p].latest_version = NoVersion
        /\ writes[q] = 1 /\ db0[q] = Module(<<>>, SomeVersion, 0)
        /\ db[q] = Module(<<>>, SomeVersion, 1)

\* ------------------------------------------------------------------ C39

\* C39: in one call of latestModuleVersion, over both calls of versions.Latest,
\* hasGoMod is called at most once with any version.
C39_HasGoModOncePerVersion ==
    op = "latestModuleVersion" =>
        \A i, j \in DOMAIN result.asked : i # j => result.asked[i] # result.asked[j]

\* ------------------------------------------------------------------ C40

\* C40: Later is a strict order on the valid versions, releases, tagged
\* prereleases, pseudo-versions and +incompatible versions alike: Later(a, a)
\* is false, Later(a, b) and Later(b, a) are not both true, and Later(a, b)
\* with Later(b, c) gives Later(a, c).
C40_LaterStrictOrder ==
    /\ op = "Later" =>
          /\ args[1] = args[2] => ~result.later
          /\ result.later => ~Later(args[2], args[1])
    /\ \A a, b, c \in Range(args) :
          /\ ~Later(a, a)
          /\ ~(Later(a, b) /\ Later(b, a))
          /\ (Later(a, b) /\ Later(b, c)) => Later(a, c)

\* LatestOf went up a chain of a pseudo-version, a tagged prerelease and an
\* incompatible release, each earlier in semver order than the one before it.
C40_Witness ==
    /\ op = "LatestOf"
    /\ Len(args) = 3
    /\ IsPseudoVersion(args[1])
    /\ ~IsRelease(args[2]) /\ ~IsPseudoVersion(args[2])
    /\ IsRelease(args[3]) /\ IsIncompatible(args[3])
    /\ Compare(args[1], args[2]) > 0
    /\ Compare(args[2], args[3]) > 0
    /\ Later(args[3], args[2]) /\ Later(args[2], args[1]) /\ Later(args[3], args[1])
    /\ result.v = args[3]

=========================================================================
